---- MODULE Spec2Model ----
(***************************************************************************)
(* Model of the tutorial notebook src/tutorials/jax_intro.ipynb.  The file *)
(* holds two notebook copies; a copy is a sequence of code cells, a cell   *)
(* a sequence of top-level statements.  Running a notebook executes the    *)
(* statements one by one against a kernel namespace.                       *)
(*                                                                         *)
(* Spec      one top-to-bottom run of a notebook copy from an empty kernel *)
(* SpecVmap  the vmap examples applied to arbitrary small arrays           *)
(* SpecJit   the jitted functions called on arbitrary small arrays         *)
(* SpecTree  tree_map and gradient_descent_step on arbitrary small pytrees *)
(* SpecNet   init_network, forward and loss of the pytree network          *)
(* SpecPmap  pmap_multiply on arbitrary small sharded arrays               *)
(***************************************************************************)
EXTENDS Integers, Sequences, FiniteSets

\* The notebook run.
VARIABLES
    copy,          \* which notebook copy is run (1 or 2; 0 when no run is modelled)
    onError,       \* what the front end does after a failed cell
    backend,       \* default device of the machine the kernel runs on
    cell,          \* index of the cell being executed
    stmt,          \* index of the next top-level statement in that cell
    it,            \* position of the range() iterator of the running loop
    i,             \* the Python loop variable i (-1 while unbound)
    ns,            \* names bound in the kernel namespace
    status,        \* "running", "halted" (stopped on an error) or "done"
    errors,        \* the exceptions that ended a cell, in order
    numpy_array,   \* value of numpy_array (<<>> while unbound)
    jax_array,     \* value of jax_array (<<>> while unbound)
    jax_device,    \* device holding jax_array
    jit_cache,     \* per jitted function, the signatures traced and their jaxprs
    outputs,       \* printed output of every cell, by cell id
    updates,       \* parameter updates done by each gradient-descent loop
    ndev,          \* number of devices of the default backend of the machine
    devices,       \* value of devices (<<>> while unbound)
    pmap_devices,  \* the device list pmap_multiply was built with
    result,        \* shape and buffer devices of result = pmap_multiply(...)
    x_data,        \* value of x_data (<<>> while unbound)
    y_data,        \* value of y_data (<<>> while unbound)
    learning_rate, \* value of the notebook variable learning_rate (0 while unbound)
    params,        \* value of params, <<m, b>> (<<>> while unbound)
    grad_params,   \* value of grad_params (<<>> while unbound)
    params_two_layer_nn,       \* value of params_two_layer_nn (<<>> while unbound)
    grad_params_two_layer_nn,  \* value of grad_params_two_layer_nn (<<>> while unbound)
    update,        \* value of update, a pytree (<<>> while unbound)
    step_gradients \* gradients of the last call of gradient_descent_step

\* The vmap functions applied to arbitrary arrays.
VARIABLES
    vpc,           \* next step of the vmap examples
    xs,            \* the vector passed to square
    squared,       \* the list built by the loop [square(x) for x in xs]
    batched,       \* batched_square(xs)
    matA, matB,    \* the matrices passed to matrix_matrix
    prod,          \* matrix_matrix(matA, matB)
    prodDot,       \* jnp.dot(matA, matB)
    prodT          \* matrix_matrix_transpose(matA, matB)

\* The jitted functions applied to arbitrary arrays.
VARIABLES
    jcache,        \* per jitted function, the signatures traced and their jaxprs
    jcall,         \* the last call: function, argument, jit disabled or not
    jval,          \* the value the last call returned
    jprinted,      \* what the last call printed
    jran,          \* how the last call ran: "eager", "traced" or "cached"
    jaxprs         \* what the last make_jaxpr(slow_function)(x) returned, if any

\* tree_map and gradient_descent_step applied to arbitrary pytrees.
VARIABLES
    tpc,           \* next step of the tree operation
    tree,          \* the input pytree (params for a gradient step)
    gradients,     \* the gradient pytree of a gradient step
    leaves,        \* flattened leaves of the input tree(s)
    mapped,        \* results of f on the leaves visited so far
    fcalls,        \* how often f was called on each leaf position
    tfun,          \* the mapped function: "double" (x * 2) or "sgd" (p - lr * g)
    tresult        \* the returned pytree

\* pmap_multiply applied to arbitrary sharded arrays.
VARIABLES
    ppc,           \* "run" while shards are being multiplied, then "done"
    x_sharded,     \* first argument: one matrix per shard
    y_sharded,     \* second argument: one matrix per shard
    pdevs,         \* the device list of pmap, one device per shard
    pbuffers,      \* per shard, the buffer its device has produced (<<>> before)
    presult        \* the array pmap_multiply returns

\* init_network, forward and loss applied to arbitrary small networks.
VARIABLES
    npc,           \* next step: "init", "params", "loss", "done"
    dims,          \* the arguments input_dim, hidden_dim, output_dim
    nparams,       \* the parameter pytree
    nsteps,        \* how many times the parameters were changed since init_network
    x_in,          \* the input batch x, one row per sample
    y_true,        \* the targets, one row per sample
    y_pred,        \* what forward returned
    nloss          \* what loss returned: the mean num / den

nbVars == <<copy, onError, backend, cell, stmt, it, i, ns, status, errors,
            numpy_array, jax_array, jax_device, jit_cache, outputs, updates,
            ndev, devices, pmap_devices, result,
            x_data, y_data, learning_rate, params, grad_params,
            params_two_layer_nn, grad_params_two_layer_nn,
            update, step_gradients>>

vmVars == <<vpc, xs, squared, batched, matA, matB, prod, prodDot, prodT>>

jtVars == <<jcache, jcall, jval, jprinted, jran, jaxprs>>

trVars == <<tpc, tree, gradients, leaves, mapped, fcalls, tfun, tresult>>

pmVars == <<ppc, x_sharded, y_sharded, pdevs, pbuffers, presult>>

ntVars == <<npc, dims, nparams, nsteps, x_in, y_true, y_pred, nloss>>

vars == <<nbVars, vmVars, jtVars, trVars, pmVars, ntVars>>

-----------------------------------------------------------------------------
(* The statements of the code cells: the names a statement looks up, in    *)
(* evaluation order, the functions whose bodies run while it executes, the *)
(* names it binds and the effect on the modelled data.                     *)

S(reads, calls, binds, eff) ==
    [reads |-> reads, calls |-> calls, binds |-> binds, eff |-> eff]

Cell_9e2462ea ==
    << S(<<>>, {}, {"jax"}, "none"),
       S(<<>>, {}, {"np"}, "none"),
       S(<<>>, {}, {"jnp"}, "none"),
       S(<<"np">>, {}, {"numpy_array"}, "np_array"),
       S(<<"np">>, {}, {"numpy_ones"}, "none"),
       S(<<"jnp">>, {}, {"jax_array"}, "jnp_array"),
       S(<<"jax">>, {}, {"jax_ones"}, "none") >>

Cell_91addb37 ==
    << S(<<"numpy_array">>, {}, {}, "np_setitem"),
       S(<<"jax_array", "TypeError", "print">>, {}, {}, "jax_setitem_try") >>

Cell_38689f57 ==
    << S(<<"print", "jax_array">>, {}, {}, "print_device"),
       S(<<"print", "jax">>, {}, {}, "none"),
       S(<<"jax", "jax_array">>, {}, {"jax_array"}, "device_put"),
       S(<<"print", "jax_array">>, {}, {}, "print_device") >>

Cell_badc7652 ==
    << S(<<"np">>, {}, {"large_numpy_matrix"}, "none"),
       S(<<"jnp", "large_numpy_matrix">>, {}, {"large_jax_matrix"}, "none"),
       S(<<"np", "large_numpy_matrix">>, {}, {}, "none"),
       S(<<"jnp", "large_jax_matrix">>, {}, {}, "none") >>

Cell_ada960c8 ==
    << S(<<>>, {}, {"slow_function"}, "none"),
       S(<<"jax", "slow_function">>, {}, {"compiled_function"}, "jit_def"),
       S(<<"compiled_function", "jnp">>, {"compiled_function"}, {"result"}, "call_compiled"),
       S(<<"print", "result">>, {}, {}, "none"),
       S(<<"jax">>, {}, {"decorated_function"}, "jit_def"),
       S(<<"print", "decorated_function">>, {}, {}, "none") >>

Cell_dcbcc886 ==
    << S(<<>>, {}, {"make_jaxpr"}, "none"),
       S(<<"print", "make_jaxpr", "slow_function", "jnp">>, {"slow_function"}, {}, "show_jaxpr") >>

Cell_42b6ce62 ==
    << S(<<"jax">>, {}, {"jitted_function"}, "jit_def"),
       S(<<"print">>, {}, {}, "print_enabled"),
       S(<<"jnp">>, {}, {"x"}, "none"),
       S(<<"range", "print", "jitted_function", "x">>, {"jitted_function"}, {"i"}, "jit_loop"),
       S(<<"print">>, {}, {}, "print_disabled"),
       S(<<"jax", "range", "print", "jitted_function", "x">>, {"jitted_function"}, {"i"}, "nojit_loop") >>

Cell_24f1ba9b ==
    << S(<<>>, {}, {"plt"}, "none"),
       S(<<>>, {}, {"true_m"}, "none"),
       S(<<>>, {}, {"true_b"}, "none"),
       S(<<"jnp">>, {}, {"x_data"}, "linspace"),
       S(<<"true_m", "x_data", "true_b", "jax">>, {}, {"y_data"}, "noisy_line") >>

Cell_8d293e70 ==
    << S(<<>>, {}, {"linear_model"}, "none"),
       S(<<>>, {}, {"mse_loss"}, "none") >>

Cell_49d1a87d_1 ==
    << S(<<"jax", "mse_loss">>, {}, {"gradient"}, "none"),
       S(<<"gradient", "jnp", "x_data", "y_data">>, {"gradient"}, {}, "none") >>

Cell_49d1a87d_2 ==
    << S(<<"jax", "mse_loss">>, {}, {"gradient"}, "none") >>

Cell_8e962562 ==
    << S(<<>>, {}, {"jaxopt"}, "none"),
       S(<<>>, {}, {"learning_rate"}, "lin_rate"),
       S(<<"jnp">>, {}, {"params"}, "lin_params"),
       S(<<"range", "gradient", "params", "x_data", "y_data", "learning_rate",
           "print", "mse_loss">>, {"gradient", "mse_loss"},
         {"grad_params", "params", "i"}, "lin_loop"),
       S(<<"print", "params">>, {}, {}, "none"),
       S(<<"jaxopt", "mse_loss">>, {}, {"solver"}, "none"),
       S(<<"solver", "x_data", "y_data">>, {"solver"}, {"params", "state"}, "none"),
       S(<<"print", "params">>, {}, {}, "none") >>

Cell_08cfc658 ==
    << S(<<>>, {}, {"two_layer_nn_model"}, "none"),
       S(<<>>, {}, {"two_layer_nn_mse_loss"}, "none"),
       S(<<"jax", "two_layer_nn_mse_loss">>, {}, {"gradient_two_layer_nn"}, "none"),
       S(<<>>, {}, {"learning_rate"}, "nn_rate"),
       S(<<"jnp">>, {}, {"params_two_layer_nn"}, "nn_params"),
       S(<<"range", "gradient_two_layer_nn", "params_two_layer_nn", "x_data",
           "y_data", "tuple", "learning_rate", "zip", "print",
           "two_layer_nn_mse_loss">>,
         {"gradient_two_layer_nn", "two_layer_nn_mse_loss"},
         {"grad_params_two_layer_nn", "params_two_layer_nn", "i"}, "nn_loop") >>

Cell_1ef32e29 ==
    << S(<<>>, {}, {"square"}, "none") >>

Cell_e1c9d6c0 ==
    << S(<<"jnp">>, {}, {"xs"}, "none"),
       S(<<"jnp", "xs", "square">>, {"square"}, {"squared"}, "none") >>

Cell_1d19c211 ==
    << S(<<"jax", "square">>, {}, {"batched_square"}, "none"),
       S(<<"batched_square", "xs">>, {"batched_square"}, {"squared"}, "none") >>

Cell_847811b2_1 ==
    << S(<<>>, {}, {"vector_vector"}, "none"),
       S(<<"jax", "vector_vector">>, {}, {"matrix_vector"}, "none"),
       S(<<"jax", "matrix_vector">>, {}, {"matrix_matrix"}, "none"),
       S(<<"print", "matrix_matrix", "jax_array", "jnp">>, {"matrix_matrix"}, {}, "print_mm"),
       S(<<"jax", "matrix_vector">>, {}, {"matrix_matrix_transpose"}, "none"),
       S(<<"print", "matrix_matrix_transpose", "jax_array">>,
         {"matrix_matrix_transpose"}, {}, "print_mmT") >>

Cell_847811b2_2 ==
    << S(<<>>, {}, {"vector_vector"}, "none"),
       S(<<"jax", "vector_vector">>, {}, {"matrix_vector"}, "none"),
       S(<<"jax", "matrix_vector">>, {}, {"matrix_matrix"}, "none"),
       S(<<"print", "mm", "jax_array", "jnp">>, {}, {}, "print_mm"),
       S(<<"jax", "matrix_vector">>, {}, {"matrix_matrix_transpose"}, "none"),
       S(<<"print", "mm_transpose", "jax_array">>, {}, {}, "print_mmT") >>

Cell_890fd8a1 ==
    << S(<<"jax">>, {}, {"devices"}, "get_devices"),
       S(<<"print", "devices">>, {}, {}, "none") >>

Cell_828fcbfc_1 ==
    << S(<<"jax">>, {}, {"x_sharded"}, "none"),
       S(<<"jax">>, {}, {"y_sharded"}, "none"),
       S(<<"jax", "matrix_matrix", "devices">>, {}, {"pmap_multiply"}, "pmap_def"),
       S(<<"pmap_multiply", "x_sharded", "y_sharded">>, {"pmap_multiply"}, {"result"}, "pmap_call"),
       S(<<"result", "print">>, {}, {"buffer"}, "show_buffers"),
       S(<<"print", "result">>, {}, {}, "show_shape") >>

Cell_828fcbfc_2 ==
    << S(<<"jax">>, {}, {"x_sharded"}, "none"),
       S(<<"jax">>, {}, {"y_sharded"}, "none"),
       S(<<"pmap", "matrix_matrix", "devices">>, {}, {"pmap_multiply"}, "pmap_def"),
       S(<<"pmap_multiply", "x_sharded", "y_sharded">>, {"pmap_multiply"}, {"result"}, "pmap_call") >>

Cell_759395c6 ==
    << S(<<"jnp">>, {}, {"leaf"}, "none"),
       S(<<"jnp">>, {}, {"tree"}, "none"),
       S(<<"jnp">>, {}, {"tree"}, "none") >>

Cell_d84ad5b8 ==
    << S(<<"jnp">>, {}, {"tree"}, "none"),
       S(<<"jax", "tree">>, {}, {"result"}, "none"),
       S(<<"print", "result">>, {}, {}, "none") >>

Cell_5dd08d18 ==
    << S(<<>>, {}, {"init_network"}, "none") >>

Cell_595953f2 ==
    << S(<<>>, {}, {"forward"}, "none") >>

Cell_b74d40e2 ==
    << S(<<>>, {}, {"loss"}, "none"),
       S(<<"jax", "loss">>, {}, {"grad_fn"}, "none"),
       S(<<>>, {}, {"gradient_descent_step"}, "none") >>

Cell_1adb56dd ==
    << S(<<>>, {}, {"print_leaf_shapes"}, "none"),
       S(<<"gradient_descent_step", "init_network", "x_data", "y_data">>,
         {"gradient_descent_step", "init_network"}, {"update"}, "gd_step"),
       S(<<"print_leaf_shapes", "update">>, {"print_leaf_shapes"}, {}, "none") >>

EmptyCell == << >>

C(id, stmts) == [id |-> id, stmts |-> stmts]

\* The code cells of the first notebook copy, in document order.
Notebook1 ==
    << C("9e2462ea", Cell_9e2462ea), C("91addb37", Cell_91addb37),
       C("38689f57", Cell_38689f57), C("badc7652", Cell_badc7652),
       C("ada960c8", Cell_ada960c8), C("dcbcc886", Cell_dcbcc886),
       C("42b6ce62", Cell_42b6ce62), C("24f1ba9b", Cell_24f1ba9b),
       C("8d293e70", Cell_8d293e70), C("49d1a87d", Cell_49d1a87d_1),
       C("8e962562", Cell_8e962562), C("08cfc658", Cell_08cfc658),
       C("1ef32e29", Cell_1ef32e29), C("e1c9d6c0", Cell_e1c9d6c0),
       C("1d19c211", Cell_1d19c211), C("847811b2", Cell_847811b2_1),
       C("890fd8a1", Cell_890fd8a1), C("828fcbfc", Cell_828fcbfc_1),
       C("759395c6", Cell_759395c6), C("d84ad5b8", Cell_d84ad5b8),
       C("5dd08d18", Cell_5dd08d18), C("595953f2", Cell_595953f2),
       C("b74d40e2", Cell_b74d40e2), C("1adb56dd", Cell_1adb56dd),
       C("9a7c136a", EmptyCell), C("b42c687a", EmptyCell) >>

\* The code cells of the second notebook copy, in document order.
Notebook2 ==
    << C("9e2462ea", Cell_9e2462ea), C("91addb37", Cell_91addb37),
       C("38689f57", Cell_38689f57), C("badc7652", Cell_badc7652),
       C("ada960c8", Cell_ada960c8), C("dcbcc886", Cell_dcbcc886),
       C("42b6ce62", Cell_42b6ce62), C("24f1ba9b", Cell_24f1ba9b),
       C("8d293e70", Cell_8d293e70), C("49d1a87d", Cell_49d1a87d_2),
       C("8e962562", Cell_8e962562), C("08cfc658", Cell_08cfc658),
       C("1ef32e29", Cell_1ef32e29), C("e1c9d6c0", Cell_e1c9d6c0),
       C("1d19c211", Cell_1d19c211), C("847811b2", Cell_847811b2_2),
       C("890fd8a1", Cell_890fd8a1), C("828fcbfc", Cell_828fcbfc_2),
       C("eebdbf2a", EmptyCell), C("d2b0c8ef", EmptyCell) >>

Notebook(k) == IF k = 1 THEN Notebook1 ELSE Notebook2

\* "execution_count" of the cells of the first copy as saved, in document
\* order; 0 for a cell that was never executed (null).
ExecutionCount1 ==
    << 1, 2, 3, 4, 5, 6, 7, 8, 15, 16, 11, 17, 18, 19, 20, 21, 22, 23, 19, 24,
       25, 26, 28, 29, 0, 0 >>

CellIds == {Notebook1[k].id : k \in DOMAIN Notebook1}
               \cup {Notebook2[k].id : k \in DOMAIN Notebook2}

\* Names an empty kernel resolves without any import: the Python builtins
\* the cells use.
Builtins == {"print", "range", "tuple", "zip", "isinstance", "dict", "TypeError"}

-----------------------------------------------------------------------------
(* Functions defined by the cells.  FnFree gives the global names the body *)
(* of a def or lambda looks up when it runs; FnWraps gives, for a function *)
(* built by a transformation (jit, grad, vmap, pmap, a solver), the        *)
(* function object it holds and runs without a name lookup.                *)

FnNames ==
    {"slow_function", "decorated_function", "jitted_function", "linear_model",
     "mse_loss", "two_layer_nn_model", "two_layer_nn_mse_loss", "square",
     "vector_vector", "init_network", "forward", "loss",
     "gradient_descent_step", "print_leaf_shapes",
     "compiled_function", "gradient", "solver", "gradient_two_layer_nn",
     "batched_square", "matrix_vector", "matrix_matrix",
     "matrix_matrix_transpose", "pmap_multiply", "grad_fn"}

FnFree(k, f) ==
    CASE f = "slow_function"          -> {"jnp"}
      [] f = "decorated_function"     -> {"jnp"}
      [] f = "jitted_function"        -> {"print"}
      [] f = "mse_loss"               -> IF k = 1 THEN {"linear_model", "np"}
                                                  ELSE {"linear_model", "jnp"}
      [] f = "two_layer_nn_model"     -> {"jax", "jnp"}
      [] f = "two_layer_nn_mse_loss"  -> {"two_layer_nn_model", "jnp"}
      [] f = "vector_vector"          -> {"jnp"}
      [] f = "init_network"           -> {"jax", "jnp"}
      [] f = "forward"                -> {"jnp", "jax"}
      [] f = "loss"                   -> {"forward", "jnp"}
      [] f = "gradient_descent_step"  -> {"grad_fn", "jax"}
      [] f = "print_leaf_shapes"      -> {"isinstance", "dict", "print_leaf_shapes", "print"}
      [] OTHER                        -> {}

FnWraps(f) ==
    CASE f = "compiled_function"        -> {"slow_function"}
      [] f = "gradient"                 -> {"mse_loss"}
      [] f = "solver"                   -> {"mse_loss"}
      [] f = "gradient_two_layer_nn"    -> {"two_layer_nn_mse_loss"}
      [] f = "batched_square"           -> {"square"}
      [] f = "matrix_vector"            -> {"vector_vector"}
      [] f = "matrix_matrix"            -> {"matrix_vector"}
      [] f = "matrix_matrix_transpose"  -> {"matrix_vector"}
      [] f = "pmap_multiply"            -> {"matrix_matrix"}
      [] f = "grad_fn"                  -> {"loss"}
      [] OTHER                          -> {}

\* The function objects whose bodies run when the functions in todo are
\* called: the functions themselves, the ones they wrap and the ones their
\* bodies call by name.
RECURSIVE Callees(_, _, _)
Callees(k, todo, seen) ==
    IF todo = {} THEN seen
    ELSE LET f == CHOOSE g \in todo : TRUE
             more == (FnWraps(f) \cup (FnFree(k, f) \cap FnNames)) \ (seen \cup {f})
         IN  Callees(k, (todo \ {f}) \cup more, seen \cup {f})

\* Names looked up inside the function bodies a statement runs.
BodyReads(k, st) == UNION {FnFree(k, f) : f \in Callees(k, st.calls, {})}

Range(seq) == {seq[n] : n \in DOMAIN seq}

\* Names the statement needs and the namespace does not hold.  A name the
\* statement itself binds before it reads it (a loop variable) is not in
\* st.reads.
Missing(k, st, names) == (Range(st.reads) \cup BodyReads(k, st)) \ names

\* The name the NameError reports: the first unbound name in evaluation
\* order, or an unbound name of a called body.
FirstMissing(k, st, names) ==
    IF \E n \in DOMAIN st.reads : st.reads[n] \notin names
    THEN st.reads[CHOOSE n \in DOMAIN st.reads :
                     /\ st.reads[n] \notin names
                     /\ \A m \in 1..(n-1) : st.reads[m] \in names]
    ELSE CHOOSE nm \in Missing(k, st, names) : TRUE

-----------------------------------------------------------------------------
(* Arrays.  A vector is a sequence of numbers, a matrix a sequence of rows. *)
(* Python indices are 0-based, sequence positions 1-based.                  *)

\* jnp.array([[1, 2], [3, 4]]) and np.array([[1, 2], [3, 4]])
Array1234 == << <<1, 2>>, <<3, 4>> >>

\* x[r, c] = v on a numpy array: succeeds in place.
NumpySetItem(A, r, c, v) ==
    [value |-> [A EXCEPT ![r + 1][c + 1] = v], raised |-> "none"]

\* x[r, c] = v on a JAX array: the array does not support item assignment.
JaxSetItemMut(A, r, c, v) ==
    [value |-> [A EXCEPT ![r + 1][c + 1] = v], raised |-> "none"]

JaxSetItem(A, r, c, v) ==
    [value |-> A, raised |-> "TypeError"]

\* except <handled> as err: does the clause catch the raised exception?
Catches(handled, raised) == handled = raised

\* A.shape of a matrix and of an array with a leading shard axis
Shape2(M) == <<Len(M), Len(M[1])>>
Shape3(R) == <<Len(R)>> \o Shape2(R[1])

CpuDevice == "TFRT_CPU_0"
GpuDevice == "cuda:0"

DevicePutMut(A, device) == [value |-> A, device |-> GpuDevice]

\* jax.device_put(A, device)
DevicePut(A, device) == [value |-> A, device |-> device]

\* The devices a machine can hold, per backend, in id order.
CpuDevices == <<CpuDevice, "TFRT_CPU_1", "TFRT_CPU_2">>
GpuDevices == <<GpuDevice, "cuda:1", "cuda:2">>

\* Largest number of devices of a machine.
MaxDevices == 2

\* jax.devices() on a machine with n devices of the default backend b
LocalDevices(b, n) == SubSeq(IF b = GpuDevice THEN GpuDevices ELSE CpuDevices, 1, n)

\* The devices argument of pmap: devices*2 in the first copy, devices[:2]
\* in the second.
PmapDeviceArg(k, devs) ==
    IF k = 1 THEN devs \o devs
    ELSE SubSeq(devs, 1, IF Len(devs) < 2 THEN Len(devs) ELSE 2)

\* shape of x_sharded and of y_sharded
ShardedShape == <<2, 10, 10>>

NoResult == [shape |-> <<>>, devices |-> <<>>]

\* jax.pmap(matrix_matrix, devices=devs)(x, y) for arrays of the given shapes:
\* the device list must hold one device per shard of the leading axis, shard
\* k runs on devs[k] and its buffer stays there.
PmapCall(devs, xshape, yshape) ==
    IF Len(devs) = xshape[1]
    THEN [raised |-> "none", shape |-> <<xshape[1], xshape[2], yshape[3]>>,
          devices |-> devs]
    ELSE [raised |-> "ValueError", shape |-> <<>>, devices |-> <<>>]

RECURSIVE SumTo(_, _, _)
SumTo(x, y, n) == IF n = 0 THEN 0 ELSE SumTo(x, y, n - 1) + x[n] * y[n]

\* jnp.vdot(x, y) of two real vectors
vdot(x, y) == SumTo(x, y, Len(x))

vector_vector(x, y) == vdot(x, y)

\* in_axes entry None
NoAxis == -1

\* The k-th slice of X along a mapped axis; an unmapped argument is passed whole.
Slice(X, axis, k) ==
    IF axis = NoAxis THEN X
    ELSE IF axis = 0 THEN X[k]
    ELSE [r \in DOMAIN X |-> X[r][k]]

AxisSize(X, axis) == IF axis = 0 THEN Len(X) ELSE Len(X[1])

\* Stack the per-slice results along out_axes.
Stack(rs, out) ==
    IF out = 0 THEN rs
    ELSE [m \in DOMAIN rs[1] |-> [k \in DOMAIN rs |-> rs[k][m]]]

\* jax.vmap(f, in_axes=(in0, in1), out_axes=out)(X, Y)
vmap2(f(_, _), in0, in1, out, X, Y) ==
    LET n  == IF in0 # NoAxis THEN AxisSize(X, in0) ELSE AxisSize(Y, in1)
        rs == [k \in 1..n |-> f(Slice(X, in0, k), Slice(Y, in1, k))]
    IN  Stack(rs, out)

\* jax.vmap(f)(X): in_axes and out_axes default to 0
vmap1(f(_), X) == [k \in 1..AxisSize(X, 0) |-> f(Slice(X, 0, k))]

matrix_vector(X, y) == vmap2(vector_vector, 0, NoAxis, 0, X, y)

matrix_matrix_mut(X, Y) == vmap2(matrix_vector, NoAxis, 1, 0, X, Y)

matrix_matrix(X, Y) == vmap2(matrix_vector, NoAxis, 1, 1, X, Y)

matrix_matrix_transpose_mut(X, Y) == vmap2(matrix_vector, NoAxis, 1, 1, X, Y)

matrix_matrix_transpose(X, Y) == vmap2(matrix_vector, NoAxis, 1, 0, X, Y)

\* jnp.dot(X, Y) of two matrices: the regular matrix product
dot(X, Y) ==
    [r \in 1..Len(X) |->
        [c \in 1..Len(Y[1]) |-> SumTo(X[r], [k \in 1..Len(Y) |-> Y[k][c]], Len(Y))]]

squareMut(x) == x + x

square(x) == x * x

batched_square(v) == vmap1(square, v)

-----------------------------------------------------------------------------
(* jit.  The body of a Python function is an expression tree.  Elementary   *)
(* operations are uninterpreted: the value of sin(v) is the term sin(v).    *)

E(op, args) == [op |-> op, args |-> args]

\* the function's parameter x
Arg == E("arg", <<>>)

\* return jnp.sin(x) * jnp.cos(x)
Body_slow_function == E("mul", <<E("sin", <<Arg>>), E("cos", <<Arg>>)>>)

\* return jnp.sin(x) * jnp.cos(x)
Body_decorated_function == E("mul", <<E("sin", <<Arg>>), E("cos", <<Arg>>)>>)

\* print("Inside jitted function:", x)
Body_jitted_function == E("print", <<Arg>>)

Body(fn) ==
    CASE fn = "compiled_function"  -> Body_slow_function
      [] fn = "slow_function"      -> Body_slow_function
      [] fn = "decorated_function" -> Body_decorated_function
      [] fn = "jitted_function"    -> Body_jitted_function

JitFns == {"compiled_function", "decorated_function", "jitted_function"}

Num(n) == [op |-> "num", n |-> n, args |-> <<>>]

\* jnp.array([1.0, 2.0, 3.0])
Array123 == <<Num(1), Num(2), Num(3)>>

\* An elementwise operation on arrays of equal length.
ApplyOp(op, ins) ==
    [k \in DOMAIN ins[1] |->
        [op |-> op, n |-> 0, args |-> [j \in DOMAIN ins |-> ins[j][k]]]]

\* Python evaluates the operands of a binary operator left to right, then
\* applies the operator.  Run on a concrete array every operation is executed
\* at once and print shows the data.
RECURSIVE EvalExpr(_, _, _)
EvalExpr(e, x, printed) ==
    CASE e.op = "arg" ->
            [val |-> x, printed |-> printed]
      [] e.op = "print" ->
            LET a == EvalExpr(e.args[1], x, printed)
            IN  [val |-> <<>>, printed |-> Append(a.printed, "concrete")]
      [] e.op \in {"sin", "cos"} ->
            LET a == EvalExpr(e.args[1], x, printed)
            IN  [val |-> ApplyOp(e.op, <<a.val>>), printed |-> a.printed]
      [] e.op = "mul" ->
            LET l == EvalExpr(e.args[1], x, printed)
                r == EvalExpr(e.args[2], x, l.printed)
            IN  [val |-> ApplyOp(e.op, <<l.val, r.val>>), printed |-> r.printed]

\* Run on a tracer every operation appends an equation to the jaxpr and
\* print shows the tracer.  Variable 1 is the input, the k-th equation
\* defines variable k + 1, variable 0 stands for None.
NewEqn(st, op, ins) ==
    [st |-> [st EXCEPT !.eqns = Append(@, [op |-> op, ins |-> ins])],
     v  |-> Len(st.eqns) + 2]

RECURSIVE TraceExprMut(_, _)
TraceExprMut(e, st) ==
    CASE e.op = "arg" ->
            [st |-> st, v |-> 1]
      [] e.op = "print" ->
            LET a == TraceExprMut(e.args[1], st)
            IN  [st |-> [a.st EXCEPT !.printed = Append(@, "tracer")], v |-> 0]
      [] e.op \in {"sin", "cos"} ->
            LET a == TraceExprMut(e.args[1], st)
            IN  NewEqn(a.st, e.op, <<a.v>>)
      [] e.op = "mul" ->
            LET r == TraceExprMut(e.args[2], st)
                l == TraceExprMut(e.args[1], r.st)
            IN  NewEqn(l.st, e.op, <<l.v, r.v>>)

RECURSIVE TraceExpr(_, _)
TraceExpr(e, st) ==
    CASE e.op = "arg" ->
            [st |-> st, v |-> 1]
      [] e.op = "print" ->
            LET a == TraceExpr(e.args[1], st)
            IN  [st |-> [a.st EXCEPT !.printed = Append(@, "tracer")], v |-> 0]
      [] e.op \in {"sin", "cos"} ->
            LET a == TraceExpr(e.args[1], st)
            IN  NewEqn(a.st, e.op, <<a.v>>)
      [] e.op = "mul" ->
            LET l == TraceExpr(e.args[1], st)
                r == TraceExpr(e.args[2], l.st)
            IN  NewEqn(r.st, e.op, <<l.v, r.v>>)

\* make_jaxpr(f): trace the body once.
MakeJaxpr(body) ==
    LET t == TraceExpr(body, [eqns |-> <<>>, printed |-> <<>>])
    IN  [eqns |-> t.st.eqns, out |-> t.v, printed |-> t.st.printed]

RECURSIVE RunEqns(_, _, _)
RunEqns(eqns, env, k) ==
    IF k > Len(eqns) THEN env
    ELSE LET eq == eqns[k]
             v  == ApplyOp(eq.op, [j \in DOMAIN eq.ins |-> env[eq.ins[j]]])
         IN  RunEqns(eqns, Append(env, v), k + 1)

\* Execute a compiled jaxpr on a concrete array.
EvalJaxpr(jaxpr, x) ==
    IF jaxpr.out = 0 THEN <<>> ELSE RunEqns(jaxpr.eqns, <<x>>, 1)[jaxpr.out]

\* What a jitted function is compiled for: shape and dtype of the argument.
Signature(x) == [shape |-> <<Len(x)>>, dtype |-> "float32"]

\* A call of a jitted function.  With jit disabled the Python body runs on
\* the data.  Otherwise the body is traced the first time a signature is
\* seen and the compiled jaxpr is reused afterwards.
JitCallMut(fn, cache, disabled, x) ==
    IF disabled
    THEN LET r == EvalExpr(Body(fn), x, <<>>)
         IN  [cache |-> cache, val |-> r.val, printed |-> r.printed, ran |-> "eager"]
    ELSE LET j == MakeJaxpr(Body(fn))
         IN  [cache |-> cache, val |-> EvalJaxpr(j, x), printed |-> j.printed,
              ran |-> "traced"]

JitCall(fn, cache, disabled, x) ==
    IF disabled
    THEN LET r == EvalExpr(Body(fn), x, <<>>)
         IN  [cache |-> cache, val |-> r.val, printed |-> r.printed, ran |-> "eager"]
    ELSE IF \E c \in cache[fn] : c.sig = Signature(x)
    THEN LET c == CHOOSE c \in cache[fn] : c.sig = Signature(x)
         IN  [cache |-> cache, val |-> EvalJaxpr(c.jaxpr, x), printed |-> <<>>,
              ran |-> "cached"]
    ELSE LET j == MakeJaxpr(Body(fn))
             c == [sig |-> Signature(x), jaxpr |-> [eqns |-> j.eqns, out |-> j.out]]
         IN  [cache   |-> [cache EXCEPT ![fn] = @ \cup {c}],
              val     |-> EvalJaxpr(j, x),
              printed |-> j.printed,
              ran     |-> "traced"]

-----------------------------------------------------------------------------
(* The regression examples.  Array elements are held in units of 1/Scale;   *)
(* every arithmetic operation rounds its result to the nearest unit, as     *)
(* every floating-point operation rounds to the nearest float.              *)

\* Units per 1.
Scale == 1000

\* a / d to the nearest integer, for d > 0
Rnd(a, d) == (2 * a + d) \div (2 * d)

\* product of two elements
Mul(a, b) == Rnd(a * b, Scale)

\* The sequence f with every element computed once.
Vec(f) == f \o <<>>

RECURSIVE SumFirst(_, _)
SumFirst(v, n) == IF n = 0 THEN 0 ELSE SumFirst(v, n - 1) + v[n]

\* jnp.mean(v), np.mean(v)
Mean(v) == LET w == Vec(v) IN Rnd(SumFirst(w, Len(w)), Len(w))

\* Number of points of x_data (the notebook takes 1000).
DataPoints == 4

\* jnp.linspace(lo, hi, n)
Linspace(lo, hi, n) == [k \in 1..n |-> lo + Rnd((hi - lo) * (k - 1), n - 1)]

\* true_m = 2.5; true_b = -1.0
true_m == (5 * Scale) \div 2
true_b == -Scale

\* The samples jax.random.normal can draw for one point.
NormalSamples == {-Scale, Scale \div 2}

\* y_data = true_m * x_data + true_b + noise * 2.0
NoisyLine(x, noise) ==
    [k \in DOMAIN x |-> Mul(true_m, x[k]) + true_b + Mul(noise[k], 2 * Scale)]

linear_model(x, m, b) == Vec([k \in DOMAIN x |-> Mul(m, x[k]) + b])

\* (y_pred - y)**2, element by element
SquaredError(pred, y) ==
    Vec([k \in DOMAIN y |-> Mul(pred[k] - y[k], pred[k] - y[k])])

mse_loss(p, x, y) == Mean(SquaredError(linear_model(x, p[1], p[2]), y))

\* gradient = jax.grad(mse_loss, argnums=0): the derivatives of mse_loss with
\* respect to m and to b, mean(2 (y_pred - y) x) and mean(2 (y_pred - y))
gradient(p, x, y) ==
    LET pred == linear_model(x, p[1], p[2])
    IN  << Mean([k \in DOMAIN x |-> Mul(2 * (pred[k] - y[k]), x[k])]),
           Mean([k \in DOMAIN x |-> 2 * (pred[k] - y[k])]) >>

DescendMut(p, rate, g) == Vec([j \in DOMAIN p |-> p[j] + Mul(rate, g[j])])

\* params - learning_rate * grad_params, element by element
Descend(p, rate, g) == Vec([j \in DOMAIN p |-> p[j] - Mul(rate, g[j])])

\* Width of the two hidden layers, 10 in jnp.zeros((1, 10)) and
\* jnp.zeros((10, 10)); the model takes a narrower network.
HiddenDim == 3

Hidden == 1..HiddenDim

\* jax.nn.relu on one element, and its derivative (0 at 0)
relu(v) == IF v > 0 THEN v ELSE 0
relu_grad(v) == IF v > 0 THEN 1 ELSE 0

ZeroParamsMut ==
    [w1 |-> <<[k \in Hidden |-> 0]>>, b1 |-> [k \in Hidden |-> 0],
     w2 |-> [k \in Hidden |-> [j \in Hidden |-> 0]], b2 |-> [k \in Hidden |-> Scale],
     w_out |-> [k \in Hidden |-> Scale], b_out |-> 0]

\* (jnp.zeros((1, 10)), jnp.zeros(10), jnp.zeros((10, 10)), jnp.zeros(10),
\*  jnp.zeros(10), 0.0), with HiddenDim for 10
ZeroParams ==
    [w1 |-> <<[k \in Hidden |-> 0]>>, b1 |-> [k \in Hidden |-> 0],
     w2 |-> [k \in Hidden |-> [j \in Hidden |-> 0]], b2 |-> [k \in Hidden |-> 0],
     w_out |-> [k \in Hidden |-> 0], b_out |-> 0]

\* The layers of two_layer_nn_model for the input row <<x>>:
\*     hidden1 = jax.nn.relu(jnp.dot(x, w1) + b1)
\*     hidden2 = jax.nn.relu(jnp.dot(hidden1, w2) + b2)
\*     return jnp.dot(hidden2, w_out) + b_out
Layers(q, x) ==
    LET z1 == Vec([k \in Hidden |-> Mul(x, q.w1[1][k]) + q.b1[k]])
        hidden1 == Vec([k \in Hidden |-> relu(z1[k])])
        z2 == Vec([j \in Hidden |->
                  SumFirst([k \in Hidden |-> Mul(hidden1[k], q.w2[k][j])], HiddenDim)
                      + q.b2[j]])
        hidden2 == Vec([j \in Hidden |-> relu(z2[j])])
    IN  [z1 |-> z1, hidden1 |-> hidden1, z2 |-> z2, hidden2 |-> hidden2,
         out |-> SumFirst([j \in Hidden |-> Mul(hidden2[j], q.w_out[j])], HiddenDim)
                     + q.b_out]

\* two_layer_nn_model(x_data[:, None], *params): one prediction per point
two_layer_nn_model(q, x) == Vec([n \in DOMAIN x |-> Layers(q, x[n]).out])

two_layer_nn_mse_loss(q, x, y) == Mean(SquaredError(two_layer_nn_model(q, x), y))

\* gradient_two_layer_nn = jax.grad(two_layer_nn_mse_loss, argnums=0): the
\* derivatives of the loss with respect to the six parameters, by the chain
\* rule through the layers, averaged over the points.
gradient_two_layer_nn(q, x, y) ==
    LET N == DOMAIN x
        L == Vec([n \in N |-> Layers(q, x[n])])
        dout == Vec([n \in N |-> 2 * (L[n].out - y[n])])
        dz2 == Vec([n \in N |-> Vec([j \in Hidden |->
                   relu_grad(L[n].z2[j]) * Mul(dout[n], q.w_out[j])])])
        dz1 == Vec([n \in N |-> Vec([k \in Hidden |->
                   relu_grad(L[n].z1[k])
                       * SumFirst([j \in Hidden |-> Mul(dz2[n][j], q.w2[k][j])],
                                  HiddenDim)])])
    IN  [w1 |-> <<Vec([k \in Hidden |-> Mean([n \in N |-> Mul(x[n], dz1[n][k])])])>>,
         b1 |-> Vec([k \in Hidden |-> Mean([n \in N |-> dz1[n][k]])]),
         w2 |-> Vec([k \in Hidden |-> Vec([j \in Hidden |->
                    Mean([n \in N |-> Mul(L[n].hidden1[k], dz2[n][j])])])]),
         b2 |-> Vec([j \in Hidden |-> Mean([n \in N |-> dz2[n][j]])]),
         w_out |-> Vec([j \in Hidden |-> Mean([n \in N |-> Mul(L[n].hidden2[j], dout[n])])]),
         b_out |-> Mean(dout)]

DescendAllMut(q, rate, g) ==
    [w1 |-> [r \in DOMAIN q.w1 |-> Descend(q.w1[r], rate, g.w1[r])],
     b1 |-> Descend(q.b1, rate, g.b1),
     w2 |-> [r \in DOMAIN q.w2 |-> Descend(q.w2[r], rate, g.w2[r])],
     b2 |-> Descend(q.b2, rate, g.b2),
     w_out |-> Descend(q.w_out, rate, g.w_out),
     b_out |-> q.b_out + Mul(rate, g.b_out)]

\* tuple(param - learning_rate * grad_param for param, grad_param in zip(...))
DescendAll(q, rate, g) ==
    [w1 |-> [r \in DOMAIN q.w1 |-> Descend(q.w1[r], rate, g.w1[r])],
     b1 |-> Descend(q.b1, rate, g.b1),
     w2 |-> [r \in DOMAIN q.w2 |-> Descend(q.w2[r], rate, g.w2[r])],
     b2 |-> Descend(q.b2, rate, g.b2),
     w_out |-> Descend(q.w_out, rate, g.w_out),
     b_out |-> q.b_out - Mul(rate, g.b_out)]

-----------------------------------------------------------------------------
(* The notebook run.                                                        *)

\* range(3) of the two loops that call jitted_function
JitCalls == 3

\* range(100) of the linear-regression loop
LinIterations == 100

\* range(100) of the two-layer network loop
NnIterations == 100

\* if i > 90: print(...)
LinShowAfter == 90

\* if i < 10: print(...)
NnShowBefore == 10

Line(tag, data) == [tag |-> tag, data |-> data]

\* The variables of the other specifications, idle during a notebook run.
VmIdle ==
    /\ vpc = "off" /\ xs = <<>> /\ squared = <<>> /\ batched = <<>>
    /\ matA = <<>> /\ matB = <<>> /\ prod = <<>> /\ prodDot = <<>> /\ prodT = <<>>

JtIdle ==
    /\ jcache = [f \in JitFns |-> {}]
    /\ jcall = [fn |-> "none", x |-> <<>>, disabled |-> FALSE]
    /\ jval = <<>> /\ jprinted = <<>> /\ jran = "none" /\ jaxprs = {}

TrIdle ==
    /\ tpc = "off" /\ tree = <<>> /\ gradients = <<>> /\ leaves = <<>>
    /\ mapped = <<>> /\ fcalls = <<>> /\ tfun = "none" /\ tresult = <<>>

PmIdle ==
    /\ ppc = "off" /\ x_sharded = <<>> /\ y_sharded = <<>> /\ pdevs = <<>>
    /\ pbuffers = <<>> /\ presult = <<>>

NtIdle ==
    /\ npc = "off" /\ dims = <<>> /\ nparams = <<>> /\ nsteps = 0
    /\ x_in = <<>> /\ y_true = <<>> /\ y_pred = <<>> /\ nloss = <<>>

NbIdle ==
    /\ copy = 0 /\ onError = "stop" /\ backend = CpuDevice
    /\ cell = 0 /\ stmt = 0 /\ it = 0 /\ i = -1 /\ ns = {} /\ status = "off"
    /\ errors = <<>> /\ numpy_array = <<>> /\ jax_array = <<>> /\ jax_device = "none"
    /\ jit_cache = [f \in JitFns |-> {}]
    /\ outputs = [c \in CellIds |-> <<>>]
    /\ updates = [lin |-> 0, nn |-> 0]
    /\ ndev = 1 /\ devices = <<>> /\ pmap_devices = <<>> /\ result = NoResult
    /\ x_data = <<>> /\ y_data = <<>> /\ learning_rate = 0
    /\ params = <<>> /\ grad_params = <<>>
    /\ params_two_layer_nn = <<>> /\ grad_params_two_layer_nn = <<>>
    /\ update = <<>> /\ step_gradients = <<>>

\* An empty kernel about to run the first cell of one of the two copies.
Init ==
    /\ copy \in {1, 2}
    /\ onError \in {"stop", "continue"}
    /\ backend \in {GpuDevice, CpuDevice}
    /\ cell = 1 /\ stmt = 1 /\ it = 0 /\ i = -1
    /\ ns = Builtins
    /\ status = "running"
    /\ errors = <<>>
    /\ numpy_array = <<>> /\ jax_array = <<>> /\ jax_device = "none"
    /\ jit_cache = [f \in JitFns |-> {}]
    /\ outputs = [c \in CellIds |-> <<>>]
    /\ updates = [lin |-> 0, nn |-> 0]
    /\ ndev \in 1..MaxDevices
    /\ devices = <<>> /\ pmap_devices = <<>> /\ result = NoResult
    /\ x_data = <<>> /\ y_data = <<>> /\ learning_rate = 0
    /\ params = <<>> /\ grad_params = <<>>
    /\ params_two_layer_nn = <<>> /\ grad_params_two_layer_nn = <<>>
    /\ update = <<>> /\ step_gradients = <<>>
    /\ VmIdle /\ JtIdle /\ TrIdle /\ PmIdle /\ NtIdle

NB == Notebook(copy)

InCell == status = "running" /\ cell \in DOMAIN NB

AtStmt == InCell /\ stmt \in DOMAIN NB[cell].stmts

Cur == NB[cell].stmts[stmt]

\* The next statement has effect eff and every name it needs is bound.
Ready(eff) == AtStmt /\ Cur.eff = eff /\ Missing(copy, Cur, ns) = {}

Emit(lines) == outputs' = [outputs EXCEPT ![NB[cell].id] = @ \o lines]

Bind == ns' = ns \cup Cur.binds

Step == stmt' = stmt + 1 /\ UNCHANGED <<cell, status>>

\* An uncaught exception ends the cell; the front end then stops the run or
\* goes on with the next cell.
Abort(e) ==
    /\ errors' = Append(errors, e)
    /\ IF onError = "stop"
       THEN status' = "halted" /\ UNCHANGED <<cell, stmt>>
       ELSE status' = status /\ cell' = cell + 1 /\ stmt' = 1

Network == <<params_two_layer_nn, grad_params_two_layer_nn>>

Regression == <<x_data, y_data, learning_rate, params, grad_params, Network>>

\* What gradient_descent_step binds: nothing else touches it.
LastStep == <<update, step_gradients>>

Fixed ==
    UNCHANGED <<copy, onError, backend, ndev, LastStep,
                vmVars, jtVars, trVars, pmVars, ntVars>>

\* The data of the cells a statement does not touch.
Kept == UNCHANGED <<devices, pmap_devices, result, Regression>>

\* A statement looks up a name the kernel does not hold.
RaiseNameError ==
    /\ AtStmt /\ Missing(copy, Cur, ns) # {}
    /\ Abort([cell |-> NB[cell].id, kind |-> "NameError",
              name |-> FirstMissing(copy, Cur, ns)])
    /\ it' = 0
    /\ UNCHANGED <<i, ns, numpy_array, jax_array, jax_device, jit_cache,
                   outputs, updates>>
    /\ Fixed /\ Kept

\* A statement whose data this model does not follow: it binds its names.
ExecStmt ==
    /\ Ready("none")
    /\ Bind /\ Step
    /\ UNCHANGED <<it, i, errors, numpy_array, jax_array, jax_device,
                   jit_cache, outputs, updates>>
    /\ Fixed /\ Kept

\* numpy_array = np.array([[1, 2], [3, 4]])
NpArray ==
    /\ Ready("np_array")
    /\ numpy_array' = Array1234
    /\ Bind /\ Step
    /\ UNCHANGED <<it, i, errors, jax_array, jax_device, jit_cache, outputs, updates>>
    /\ Fixed /\ Kept

\* jax_array = jnp.array([[1, 2], [3, 4]])
JnpArray ==
    /\ Ready("jnp_array")
    /\ jax_array' = Array1234
    /\ jax_device' = backend
    /\ Bind /\ Step
    /\ UNCHANGED <<it, i, errors, numpy_array, jit_cache, outputs, updates>>
    /\ Fixed /\ Kept

\* numpy_array[1, 1] = 0
NpSetItem ==
    /\ Ready("np_setitem")
    /\ LET r == NumpySetItem(numpy_array, 1, 1, 0)
       IN  /\ numpy_array' = r.value
           /\ IF r.raised = "none"
              THEN Step /\ UNCHANGED errors
              ELSE Abort([cell |-> NB[cell].id, kind |-> r.raised, name |-> ""])
    /\ UNCHANGED <<it, i, ns, jax_array, jax_device, jit_cache, outputs, updates>>
    /\ Fixed /\ Kept

\* try: jax_array[1, 1] = 0
\* except TypeError as err: print(f"Exeption raised: {err}")
JaxSetItemTry ==
    /\ Ready("jax_setitem_try")
    /\ LET r == JaxSetItem(jax_array, 1, 1, 0)
       IN  /\ jax_array' = r.value
           /\ IF r.raised = "none"
              THEN Step /\ UNCHANGED <<errors, outputs>>
              ELSE IF Catches("TypeError", r.raised)
              THEN Step /\ Emit(<<Line("Exeption raised", r.raised)>>)
                        /\ UNCHANGED errors
              ELSE Abort([cell |-> NB[cell].id, kind |-> r.raised, name |-> ""])
                        /\ UNCHANGED outputs
    /\ UNCHANGED <<it, i, ns, numpy_array, jax_device, jit_cache, updates>>
    /\ Fixed /\ Kept

\* print("Array device:", jax_array.device_buffer.device())
ShowDevice ==
    /\ Ready("print_device")
    /\ Emit(<<Line("Array device", jax_device)>>)
    /\ Bind /\ Step
    /\ UNCHANGED <<it, i, errors, numpy_array, jax_array, jax_device,
                   jit_cache, updates>>
    /\ Fixed /\ Kept

\* jax_array = jax.device_put(jax_array, jax.devices("cpu")[0])
DevicePutStmt ==
    /\ Ready("device_put")
    /\ LET r == DevicePut(jax_array, CpuDevice)
       IN  jax_array' = r.value /\ jax_device' = r.device
    /\ Bind /\ Step
    /\ UNCHANGED <<it, i, errors, numpy_array, jit_cache, outputs, updates>>
    /\ Fixed /\ Kept

\* compiled_function = jax.jit(slow_function); @jax.jit def ...: a new
\* jitted function has traced nothing yet.
JitDef ==
    /\ Ready("jit_def")
    /\ jit_cache' = [f \in JitFns |-> IF f \in Cur.binds THEN {} ELSE jit_cache[f]]
    /\ Bind /\ Step
    /\ UNCHANGED <<it, i, errors, numpy_array, jax_array, jax_device, outputs, updates>>
    /\ Fixed /\ Kept

\* result = compiled_function(jnp.array([1.0, 2.0, 3.0]))
CallCompiled ==
    /\ Ready("call_compiled")
    /\ jit_cache' = JitCall("compiled_function", jit_cache, FALSE, Array123).cache
    /\ Bind /\ Step
    /\ UNCHANGED <<it, i, errors, numpy_array, jax_array, jax_device, outputs, updates>>
    /\ Fixed /\ Kept

\* print(make_jaxpr(slow_function)(jnp.array([1.0, 2.0, 3.0])))
ShowJaxpr ==
    /\ Ready("show_jaxpr")
    /\ Emit(<<Line("jaxpr", MakeJaxpr(Body("slow_function")).eqns)>>)
    /\ Bind /\ Step
    /\ UNCHANGED <<it, i, errors, numpy_array, jax_array, jax_device, jit_cache, updates>>
    /\ Fixed /\ Kept

\* print("JIT enabled")
ShowEnabled ==
    /\ Ready("print_enabled")
    /\ Emit(<<Line("JIT enabled", 0)>>)
    /\ Bind /\ Step
    /\ UNCHANGED <<it, i, errors, numpy_array, jax_array, jax_device, jit_cache, updates>>
    /\ Fixed /\ Kept

\* print("\nJIT disabled")
ShowDisabled ==
    /\ Ready("print_disabled")
    /\ Emit(<<Line("JIT disabled", 0)>>)
    /\ Bind /\ Step
    /\ UNCHANGED <<it, i, errors, numpy_array, jax_array, jax_device, jit_cache, updates>>
    /\ Fixed /\ Kept

\* print("Inside jitted function:", x) shows a tracer or the data.
InsideTag(p) ==
    IF p = "tracer" THEN "Inside jitted function: Traced<ShapedArray>"
                    ELSE "Inside jitted function: [1. 2. 3.]"

\* What the body of the loops of cell 42b6ce62 prints and leaves in the cache:
\*     print(f"Iteration {i+1}:")
\*     jitted_function(x)
JitLoopBody(k, disabled) ==
    LET r == JitCall("jitted_function", jit_cache, disabled, Array123)
    IN  /\ jit_cache' = r.cache
        /\ Emit(<<Line("Iteration", k + 1)>>
                 \o [n \in DOMAIN r.printed |-> Line(InsideTag(r.printed[n]), 0)])

\* for i in range(3): one more iteration, jit enabled
JitLoopIter ==
    /\ Ready("jit_loop") /\ it < JitCalls
    /\ i' = it /\ it' = it + 1
    /\ JitLoopBody(i', FALSE)
    /\ Bind
    /\ UNCHANGED <<cell, stmt, status, errors, numpy_array, jax_array, jax_device, updates>>
    /\ Fixed /\ Kept

\* for i in range(3): the range is exhausted
JitLoopExit ==
    /\ Ready("jit_loop") /\ it = JitCalls
    /\ it' = 0
    /\ Step
    /\ UNCHANGED <<i, ns, errors, numpy_array, jax_array, jax_device, jit_cache,
                   outputs, updates>>
    /\ Fixed /\ Kept

\* with jax.disable_jit(): for i in range(3): one more iteration
NoJitLoopIter ==
    /\ Ready("nojit_loop") /\ it < JitCalls
    /\ i' = it /\ it' = it + 1
    /\ JitLoopBody(i', TRUE)
    /\ Bind
    /\ UNCHANGED <<cell, stmt, status, errors, numpy_array, jax_array, jax_device, updates>>
    /\ Fixed /\ Kept

\* with jax.disable_jit(): for i in range(3): the range is exhausted
NoJitLoopExit ==
    /\ Ready("nojit_loop") /\ it = JitCalls
    /\ it' = 0
    /\ Step
    /\ UNCHANGED <<i, ns, errors, numpy_array, jax_array, jax_device, jit_cache,
                   outputs, updates>>
    /\ Fixed /\ Kept

LinLoopIterMut ==
    /\ Ready("lin_loop") /\ it < LinIterations
    /\ i' = it
    /\ it' = IF i' > LinShowAfter THEN LinIterations ELSE it + 1
    /\ updates' = [updates EXCEPT !.lin = @ + 1]
    /\ grad_params' = gradient(params, x_data, y_data)
    /\ params' = Descend(params, learning_rate, grad_params')
    /\ IF i' > LinShowAfter
       THEN Emit(<<Line("Iteration", [n |-> i' + 1, m |-> params'[1], b |-> params'[2],
                                      loss |-> mse_loss(params', x_data, y_data)])>>)
       ELSE UNCHANGED outputs
    /\ Bind
    /\ UNCHANGED <<cell, stmt, status, errors, numpy_array, jax_array, jax_device,
                   jit_cache, devices, pmap_devices, result, x_data, y_data,
                   learning_rate, Network>>
    /\ Fixed

\* for i in range(100):
\*     grad_params = gradient(params, x_data, y_data)
\*     params -= learning_rate * grad_params
\*     if i > 90: print(f"Iteration {i+1}: ...")
LinLoopIter ==
    /\ Ready("lin_loop") /\ it < LinIterations
    /\ i' = it /\ it' = it + 1
    /\ updates' = [updates EXCEPT !.lin = @ + 1]
    /\ grad_params' = gradient(params, x_data, y_data)
    /\ params' = Descend(params, learning_rate, grad_params')
    /\ IF i' > LinShowAfter
       THEN Emit(<<Line("Iteration", [n |-> i' + 1, m |-> params'[1], b |-> params'[2],
                                      loss |-> mse_loss(params', x_data, y_data)])>>)
       ELSE UNCHANGED outputs
    /\ Bind
    /\ UNCHANGED <<cell, stmt, status, errors, numpy_array, jax_array, jax_device,
                   jit_cache, devices, pmap_devices, result, x_data, y_data,
                   learning_rate, Network>>
    /\ Fixed

LinLoopExit ==
    /\ Ready("lin_loop") /\ it = LinIterations
    /\ it' = 0
    /\ Step
    /\ UNCHANGED <<i, ns, errors, numpy_array, jax_array, jax_device, jit_cache,
                   outputs, updates>>
    /\ Fixed /\ Kept

NnLoopIterMut ==
    /\ Ready("nn_loop") /\ it < NnIterations
    /\ i' = it /\ it' = it + 1
    /\ updates' = [updates EXCEPT !.nn = @ + 1]
    /\ grad_params_two_layer_nn' =
           gradient_two_layer_nn(params_two_layer_nn, x_data, y_data)
    /\ params_two_layer_nn' =
           DescendAll(params_two_layer_nn, learning_rate, grad_params_two_layer_nn')
    /\ IF i' <= NnShowBefore
       THEN Emit(<<Line("Iteration",
                        [n |-> i' + 1,
                         loss |-> two_layer_nn_mse_loss(params_two_layer_nn',
                                                        x_data, y_data)])>>)
       ELSE UNCHANGED outputs
    /\ Bind
    /\ UNCHANGED <<cell, stmt, status, errors, numpy_array, jax_array, jax_device,
                   jit_cache, devices, pmap_devices, result, x_data, y_data,
                   learning_rate, params, grad_params>>
    /\ Fixed

\* for i in range(100):
\*     grad_params_two_layer_nn = gradient_two_layer_nn(...)
\*     params_two_layer_nn = tuple(param - learning_rate * grad_param ...)
\*     if i < 10: print(f"Iteration {i+1}: ...")
NnLoopIter ==
    /\ Ready("nn_loop") /\ it < NnIterations
    /\ i' = it /\ it' = it + 1
    /\ updates' = [updates EXCEPT !.nn = @ + 1]
    /\ grad_params_two_layer_nn' =
           gradient_two_layer_nn(params_two_layer_nn, x_data, y_data)
    /\ params_two_layer_nn' =
           DescendAll(params_two_layer_nn, learning_rate, grad_params_two_layer_nn')
    /\ IF i' < NnShowBefore
       THEN Emit(<<Line("Iteration",
                        [n |-> i' + 1,
                         loss |-> two_layer_nn_mse_loss(params_two_layer_nn',
                                                        x_data, y_data)])>>)
       ELSE UNCHANGED outputs
    /\ Bind
    /\ UNCHANGED <<cell, stmt, status, errors, numpy_array, jax_array, jax_device,
                   jit_cache, devices, pmap_devices, result, x_data, y_data,
                   learning_rate, params, grad_params>>
    /\ Fixed

NnLoopExit ==
    /\ Ready("nn_loop") /\ it = NnIterations
    /\ it' = 0
    /\ Step
    /\ UNCHANGED <<i, ns, errors, numpy_array, jax_array, jax_device, jit_cache,
                   outputs, updates>>
    /\ Fixed /\ Kept

\* print("Compare outputs:\nvmap:\n", matrix_matrix(jax_array, jax_array),
\*       "\nregular dot product:\n", jnp.dot(jax_array, jax_array))
ShowMatrixMatrix ==
    /\ Ready("print_mm")
    /\ Emit(<<Line("vmap", matrix_matrix(jax_array, jax_array)),
              Line("regular dot product", dot(jax_array, jax_array))>>)
    /\ Bind /\ Step
    /\ UNCHANGED <<it, i, errors, numpy_array, jax_array, jax_device, jit_cache, updates>>
    /\ Fixed /\ Kept

\* print("\n\nTranspose outputs:\n", matrix_matrix_transpose(jax_array, jax_array))
ShowTranspose ==
    /\ Ready("print_mmT")
    /\ Emit(<<Line("Transpose outputs", matrix_matrix_transpose(jax_array, jax_array))>>)
    /\ Bind /\ Step
    /\ UNCHANGED <<it, i, errors, numpy_array, jax_array, jax_device, jit_cache, updates>>
    /\ Fixed /\ Kept

\* x_data = jnp.linspace(-10, 10, 1000)
LinspaceStmt ==
    /\ Ready("linspace")
    /\ x_data' = Linspace(-10 * Scale, 10 * Scale, DataPoints)
    /\ Bind /\ Step
    /\ UNCHANGED <<it, i, errors, numpy_array, jax_array, jax_device, jit_cache,
                   outputs, updates, devices, pmap_devices, result,
                   y_data, learning_rate, params, grad_params, Network>>
    /\ Fixed

\* y_data = true_m * x_data + true_b
\*          + jax.random.normal(jax.random.PRNGKey(123), shape=x_data.shape) * 2.0
NoisyLineStmt ==
    /\ Ready("noisy_line")
    /\ \E noise \in [DOMAIN x_data -> NormalSamples] :
          y_data' = NoisyLine(x_data, noise)
    /\ Bind /\ Step
    /\ UNCHANGED <<it, i, errors, numpy_array, jax_array, jax_device, jit_cache,
                   outputs, updates, devices, pmap_devices, result,
                   x_data, learning_rate, params, grad_params, Network>>
    /\ Fixed

\* learning_rate = 0.01 (cell 8e962562), learning_rate = 0.1 (cell 08cfc658)
SetLearningRate ==
    /\ Ready("lin_rate") \/ Ready("nn_rate")
    /\ learning_rate' = IF Cur.eff = "lin_rate" THEN Scale \div 100 ELSE Scale \div 10
    /\ Bind /\ Step
    /\ UNCHANGED <<it, i, errors, numpy_array, jax_array, jax_device, jit_cache,
                   outputs, updates, devices, pmap_devices, result,
                   x_data, y_data, params, grad_params, Network>>
    /\ Fixed

\* params = jnp.array([0.0, 0.0])
InitParams ==
    /\ Ready("lin_params")
    /\ params' = <<0, 0>>
    /\ Bind /\ Step
    /\ UNCHANGED <<it, i, errors, numpy_array, jax_array, jax_device, jit_cache,
                   outputs, updates, devices, pmap_devices, result,
                   x_data, y_data, learning_rate, grad_params, Network>>
    /\ Fixed

\* params_two_layer_nn = (jnp.zeros((1, 10)), jnp.zeros(10), ..., 0.0)
InitNnParams ==
    /\ Ready("nn_params")
    /\ params_two_layer_nn' = ZeroParams
    /\ Bind /\ Step
    /\ UNCHANGED <<it, i, errors, numpy_array, jax_array, jax_device, jit_cache,
                   outputs, updates, devices, pmap_devices, result,
                   x_data, y_data, learning_rate, params, grad_params,
                   grad_params_two_layer_nn>>
    /\ Fixed

\* devices = jax.devices()
GetDevices ==
    /\ Ready("get_devices")
    /\ devices' = LocalDevices(backend, ndev)
    /\ Bind /\ Step
    /\ UNCHANGED <<it, i, errors, numpy_array, jax_array, jax_device, jit_cache,
                   outputs, updates, pmap_devices, result, Regression>>
    /\ Fixed

\* pmap_multiply = jax.pmap(matrix_matrix, devices=devices*2)
\* pmap_multiply= pmap(matrix_matrix, devices = devices[:2])
PmapDef ==
    /\ Ready("pmap_def")
    /\ pmap_devices' = PmapDeviceArg(copy, devices)
    /\ Bind /\ Step
    /\ UNCHANGED <<it, i, errors, numpy_array, jax_array, jax_device, jit_cache,
                   outputs, updates, devices, result, Regression>>
    /\ Fixed

\* result = pmap_multiply(x_sharded, y_sharded)
PmapCallStmt ==
    /\ Ready("pmap_call")
    /\ LET r == PmapCall(pmap_devices, ShardedShape, ShardedShape)
       IN  IF r.raised = "none"
           THEN /\ result' = [shape |-> r.shape, devices |-> r.devices]
                /\ Bind /\ Step /\ UNCHANGED errors
           ELSE /\ Abort([cell |-> NB[cell].id, kind |-> r.raised, name |-> ""])
                /\ UNCHANGED <<ns, result>>
    /\ UNCHANGED <<it, i, numpy_array, jax_array, jax_device, jit_cache,
                   outputs, updates, devices, pmap_devices, Regression>>
    /\ Fixed

\* for buffer in result.device_buffers:
\*     print("Shape:", buffer.shape)
\*     print("Device:", buffer.device_buffer.device())
ShowBuffers ==
    /\ Ready("show_buffers")
    /\ Emit([n \in 1..(2 * Len(result.devices)) |->
                IF n % 2 = 1 THEN Line("Shape", Tail(result.shape))
                             ELSE Line("Device", result.devices[n \div 2])])
    /\ Bind /\ Step
    /\ UNCHANGED <<it, i, errors, numpy_array, jax_array, jax_device, jit_cache,
                   updates>>
    /\ Fixed /\ Kept

\* print("Result Shape:", result.shape)
ShowShape ==
    /\ Ready("show_shape")
    /\ Emit(<<Line("Result Shape", result.shape)>>)
    /\ Bind /\ Step
    /\ UNCHANGED <<it, i, errors, numpy_array, jax_array, jax_device, jit_cache,
                   updates>>
    /\ Fixed /\ Kept

\* The last statement of a cell is done: the next cell starts.
NextCell ==
    /\ InCell /\ stmt = Len(NB[cell].stmts) + 1
    /\ cell' = cell + 1 /\ stmt' = 1
    /\ UNCHANGED <<it, i, ns, status, errors, numpy_array, jax_array, jax_device,
                   jit_cache, outputs, updates>>
    /\ Fixed /\ Kept

\* The last cell is done.
Finish ==
    /\ status = "running" /\ cell = Len(NB) + 1
    /\ status' = "done"
    /\ UNCHANGED <<cell, stmt, it, i, ns, errors, numpy_array, jax_array,
                   jax_device, jit_cache, outputs, updates>>
    /\ Fixed /\ Kept

\* The steps of the run, Next and Spec, follow the gradient step of the last
\* cell, which works on pytrees.

-----------------------------------------------------------------------------
(* Properties of the notebook run.                                          *)

CellIndex(k, id) == CHOOSE n \in DOMAIN Notebook(k) : Notebook(k)[n].id = id

\* Statement s of cell id has been executed or skipped.
After(id, s) ==
    LET n == CellIndex(copy, id)
    IN  cell > n \/ (cell = n /\ stmt > s)

Failed(id) == \E k \in DOMAIN errors : errors[k].cell = id

Tags(log) == [k \in DOMAIN log |-> log[k].tag]

\* C1: in the immutability cell the assignment jax_array[1, 1] = 0 raises a
\* TypeError the cell catches: the cell ends without an error, jax_array holds
\* [[1, 2], [3, 4]] in every later state (the later matrix products are those
\* of the unmodified array), and numpy_array differs from [[1, 2], [3, 4]] in
\* element [1, 1] only, which is 0.
C1_ImmutabilityCell ==
    /\ Len(jax_array) > 0 => jax_array = Array1234
    /\ After("91addb37", 2) =>
          /\ ~Failed("91addb37")
          /\ Tags(outputs["91addb37"]) = <<"Exeption raised">>
          /\ outputs["91addb37"][1].data = "TypeError"
          /\ numpy_array = [Array1234 EXCEPT ![2][2] = 0]
    /\ Len(outputs["847811b2"]) > 0 =>
          outputs["847811b2"][1].data = << <<7, 10>>, <<15, 22>> >>

\* The immutability cell has run and a later cell has multiplied jax_array.
C1_Witness ==
    /\ After("91addb37", 2)
    /\ Len(outputs["91addb37"]) = 1
    /\ Len(outputs["847811b2"]) > 0

\* C2: in a top-to-bottom run of either copy from an empty kernel every
\* name a statement reads is bound by then: no statement needs a name the
\* namespace does not hold, and no cell ends with a NameError.
C2_EveryNameBound ==
    /\ AtStmt => Missing(copy, Cur, ns) = {}
    /\ \A k \in DOMAIN errors : errors[k].kind # "NameError"

\* C3: each gradient-descent loop does one parameter update per iteration,
\* never more than 100, and has done exactly 100 when it ends.
C3_LoopsDo100Updates ==
    /\ updates.lin <= 100 /\ updates.nn <= 100
    /\ (AtStmt /\ Cur.eff = "lin_loop") => updates.lin = it
    /\ (AtStmt /\ Cur.eff = "nn_loop") => updates.nn = it
    /\ (status # "off" /\ After("8e962562", 4)) => updates.lin = 100
    /\ (status # "off" /\ After("08cfc658", 6)) => updates.nn = 100

\* Both loops have ended.
C3_Witness ==
    /\ status = "done"
    /\ updates.lin = 100 /\ updates.nn = 100

\* C4: with jit enabled the three calls of jitted_function run its body once,
\* in the first call, on a tracer; under disable_jit the body runs in each of
\* the three calls on the array.
C4_JitTracesOnce ==
    (status # "off" /\ After("42b6ce62", 6)) =>
        outputs["42b6ce62"] =
            << Line("JIT enabled", 0),
               Line("Iteration", 1),
               Line("Inside jitted function: Traced<ShapedArray>", 0),
               Line("Iteration", 2),
               Line("Iteration", 3),
               Line("JIT disabled", 0),
               Line("Iteration", 1),
               Line("Inside jitted function: [1. 2. 3.]", 0),
               Line("Iteration", 2),
               Line("Inside jitted function: [1. 2. 3.]", 0),
               Line("Iteration", 3),
               Line("Inside jitted function: [1. 2. 3.]", 0) >>

\* The cell with the six calls has run.
C4_Witness ==
    /\ status # "off" /\ After("42b6ce62", 6)
    /\ Len(outputs["42b6ce62"]) = 12
    /\ Cardinality(jit_cache["jitted_function"]) = 1

\* C13: the statement jax_array = jax.device_put(jax_array,
\* jax.devices("cpu")[0]) leaves the array on the CPU device, on whichever
\* device it was before, with the shape and the elements it had; the array
\* is on the CPU device in every later state, and the cell then prints it.
C13_DevicePutToCpu ==
    /\ [][Ready("device_put") =>
              /\ jax_device' = CpuDevice
              /\ jax_array' = jax_array
              /\ Shape2(jax_array') = Shape2(jax_array)]_vars
    /\ [](After("38689f57", 3) =>
              /\ jax_device = CpuDevice
              /\ jax_array = Array1234)
    /\ [](After("38689f57", 4) =>
              /\ Tags(outputs["38689f57"]) = <<"Array device", "Array device">>
              /\ outputs["38689f57"][1].data = backend
              /\ outputs["38689f57"][2].data = CpuDevice)

\* The array was created on a GPU and the cell has moved it to the CPU.
C13_Witness ==
    /\ After("38689f57", 4)
    /\ outputs["38689f57"][1].data = GpuDevice
    /\ jax_device = CpuDevice

Abs(a) == IF a < 0 THEN -a ELSE a

\* p with d added to element j
Nudge(p, j, d) == [p EXCEPT ![j] = @ + d]

LastLine(log) == log[Len(log)].data

\* 0.1, the step of the difference quotient (L(p + 0.1) - L(p - 0.1)) / 0.2
Tenth == Scale \div 10

\* 0.04: the rounding of each product to 0.001, scaled by residuals up to 30
SlopeTolerance == 4 * (Scale \div 100)

LinLoopRuns == Ready("lin_loop") /\ it < LinIterations

NnLoopRuns == Ready("nn_loop") /\ it < NnIterations

\* C14: the linear-regression loop starts from params = [0, 0] with
\* learning_rate = 0.01; every iteration binds grad_params to the gradient of
\* mse_loss at the params before the update (the slope of the loss there, in
\* m and in b, up to rounding) and replaces params by
\* params - 0.01 * grad_params; a printed line shows the new params and the
\* loss at the new params.
C14_LinearUpdateRule ==
    /\ []((AtStmt /\ Cur.eff = "lin_loop" /\ it = 0) =>
              params = <<0, 0>> /\ 100 * learning_rate = Scale)
    /\ [][LinLoopRuns =>
              /\ \A j \in 1..2 :
                    /\ Abs(5 * (mse_loss(Nudge(params, j, Tenth), x_data, y_data)
                                   - mse_loss(Nudge(params, j, -Tenth), x_data, y_data))
                              - grad_params'[j]) <= SlopeTolerance
                    /\ params'[j] = params[j] - Rnd(grad_params'[j], 100)
              /\ (i' > 90) =>
                    (LET line == LastLine(outputs'["8e962562"])
                     IN  /\ line.m = params'[1] /\ line.b = params'[2]
                         /\ line.loss = mse_loss(params', x_data, y_data))]_vars

\* The loop has ended: the last line shows iteration 100 and a slope near 2.5.
C14_Witness ==
    /\ After("8e962562", 4)
    /\ Len(outputs["8e962562"]) > 0
    /\ LastLine(outputs["8e962562"]).n = 100
    /\ LastLine(outputs["8e962562"]).m = params[1]
    /\ params[1] > 2 * Scale /\ params[1] < 3 * Scale

\* C15: the linear-regression loop prints exactly the iterations 92 to 100,
\* nine lines in increasing order, the two-layer loop exactly the iterations
\* 1 to 10; the printed number is always i + 1.
C15_PrintedIterations ==
    /\ (AtStmt /\ Cur.eff = "lin_loop") =>
          /\ Len(outputs["8e962562"]) = IF it > 91 THEN it - 91 ELSE 0
          /\ it > 91 => LastLine(outputs["8e962562"]).n = i + 1
    /\ (AtStmt /\ Cur.eff = "nn_loop") =>
          /\ Len(outputs["08cfc658"]) = IF it < 10 THEN it ELSE 10
          /\ (it > 0 /\ it <= 10) => LastLine(outputs["08cfc658"]).n = i + 1
    /\ \A k \in DOMAIN outputs["8e962562"] : outputs["8e962562"][k].data.n = 91 + k
    /\ \A k \in DOMAIN outputs["08cfc658"] : outputs["08cfc658"][k].data.n = k
    /\ (status # "off" /\ After("8e962562", 4)) => Len(outputs["8e962562"]) = 9
    /\ (status # "off" /\ After("08cfc658", 6)) => Len(outputs["08cfc658"]) = 10

\* Both loops have ended and have printed their lines.
C15_Witness ==
    /\ status # "off" /\ After("08cfc658", 6)
    /\ Len(outputs["8e962562"]) = 9 /\ Len(outputs["08cfc658"]) = 10
    /\ outputs["8e962562"][1].data.n = 92
    /\ outputs["08cfc658"][10].data.n = 10

ShownLossFalls(c) ==
    \A k \in 1..(Len(outputs[c]) - 1) :
        outputs[c][k + 1].data.loss <= outputs[c][k].data.loss

IsZero(v) == \A k \in DOMAIN v : v[k] = 0

\* C17: in the two-layer loop, at any number of updates, w1, b1, w2, b2 and
\* w_out are all zero, both hidden activations are zero for every input,
\* every gradient except the one of b_out is zero, and the prediction is
\* b_out for every input.
C17_OnlyOutputBiasMoves ==
    "params_two_layer_nn" \in ns =>
        LET q == params_two_layer_nn
            g == grad_params_two_layer_nn
        IN  /\ IsZero(q.w1[1]) /\ IsZero(q.b1) /\ IsZero(q.b2) /\ IsZero(q.w_out)
            /\ \A k \in Hidden : IsZero(q.w2[k])
            /\ \A x \in {x_data[n] : n \in DOMAIN x_data} \cup {7 * Scale, -Scale} :
                  LET l == Layers(q, x)
                  IN  IsZero(l.hidden1) /\ IsZero(l.hidden2) /\ l.out = q.b_out
            /\ "grad_params_two_layer_nn" \in ns =>
                  /\ IsZero(g.w1[1]) /\ IsZero(g.b1) /\ IsZero(g.b2) /\ IsZero(g.w_out)
                  /\ \A k \in Hidden : IsZero(g.w2[k])

\* The loop has ended and b_out has moved away from 0.
C17_Witness ==
    /\ status # "off" /\ After("08cfc658", 6)
    /\ updates.nn = 100
    /\ params_two_layer_nn.b_out < 0
    /\ grad_params_two_layer_nn.b_out # 0

\* C20: the recorded execution counts of the executed code cells of the
\* first copy strictly increase in document order: the cell a top-to-bottom
\* run is in has a higher recorded count than every cell above it.
C20_CountsIncreaseInOrder ==
    (copy = 1 /\ InCell /\ ExecutionCount1[cell] # 0) =>
        \A k \in 1..(cell - 1) : ExecutionCount1[k] < ExecutionCount1[cell]

\* C11: in the pmap cell the two shards of the leading dimension are
\* multiplied on two different devices of the list passed to pmap.
C11_ShardsOnDifferentDevices ==
    result # NoResult =>
        /\ Len(result.devices) = 2
        /\ result.devices[1] # result.devices[2]

-----------------------------------------------------------------------------
(* SpecVmap: square, batched_square, matrix_matrix, jnp.dot and             *)
(* matrix_matrix_transpose applied to arbitrary small arrays.               *)

\* Largest length of the vector xs.
MaxLen == 3

\* Entries of xs range over -MaxAbs..MaxAbs.
MaxAbs == 2

\* Largest b, a and c of the shapes [b, a] and [a, c].
MaxB == 2

MaxA == 2

MaxC == 2

\* Entries of the matrices range over 0..MaxEntry.
MaxEntry == 1

Vectors == UNION {[1..n -> (-MaxAbs)..MaxAbs] : n \in 1..MaxLen}

Matrices(r, c) == [1..r -> [1..c -> 0..MaxEntry]]

\* A [2, 3] and a [3, 1] matrix with negative entries.
ExampleA == << <<1, -2, 3>>, <<0, 4, -1>> >>

ExampleB == << <<2>>, <<-3>>, <<5>> >>

InitVmap ==
    /\ NbIdle /\ JtIdle /\ TrIdle /\ PmIdle /\ NtIdle
    /\ squared = <<>> /\ batched = <<>>
    /\ prod = <<>> /\ prodDot = <<>> /\ prodT = <<>>
    /\ \/ /\ vpc = "square_loop"
          /\ xs \in Vectors
          /\ matA = <<>> /\ matB = <<>>
       \/ /\ vpc = "matrix_matrix"
          /\ xs = <<>>
          /\ \/ \E b \in 1..MaxB, a \in 1..MaxA, c \in 1..MaxC :
                    matA \in Matrices(b, a) /\ matB \in Matrices(a, c)
             \/ matA = Array1234 /\ matB = Array1234
             \/ matA = ExampleA /\ matB = ExampleB

VmFixed == UNCHANGED <<nbVars, jtVars, trVars, pmVars, ntVars, xs, matA, matB>>

\* squared = jnp.array([square(x) for x in xs]): the next element
SquareLoopStep ==
    /\ vpc = "square_loop" /\ Len(squared) < Len(xs)
    /\ squared' = Append(squared, square(xs[Len(squared) + 1]))
    /\ UNCHANGED <<vpc, batched, prod, prodDot, prodT>>
    /\ VmFixed

\* the comprehension has visited every element of xs
SquareLoopEnd ==
    /\ vpc = "square_loop" /\ Len(squared) = Len(xs)
    /\ vpc' = "batched_square"
    /\ UNCHANGED <<squared, batched, prod, prodDot, prodT>>
    /\ VmFixed

\* batched_square(xs)
BatchedSquare ==
    /\ vpc = "batched_square"
    /\ batched' = batched_square(xs)
    /\ vpc' = "done"
    /\ UNCHANGED <<squared, prod, prodDot, prodT>>
    /\ VmFixed

\* matrix_matrix(A, B)
MatrixMatrix ==
    /\ vpc = "matrix_matrix"
    /\ prod' = matrix_matrix(matA, matB)
    /\ vpc' = "dot"
    /\ UNCHANGED <<squared, batched, prodDot, prodT>>
    /\ VmFixed

\* jnp.dot(A, B)
JnpDot ==
    /\ vpc = "dot"
    /\ prodDot' = dot(matA, matB)
    /\ vpc' = "transpose"
    /\ UNCHANGED <<squared, batched, prod, prodT>>
    /\ VmFixed

\* matrix_matrix_transpose(A, B)
MatrixMatrixTranspose ==
    /\ vpc = "transpose"
    /\ prodT' = matrix_matrix_transpose(matA, matB)
    /\ vpc' = "done"
    /\ UNCHANGED <<squared, batched, prod, prodDot>>
    /\ VmFixed

NextVmap ==
    \/ SquareLoopStep \/ SquareLoopEnd \/ BatchedSquare
    \/ MatrixMatrix \/ JnpDot \/ MatrixMatrixTranspose

SpecVmap == InitVmap /\ [][NextVmap]_vars

IsShape(M, r, c) == Len(M) = r /\ \A k \in 1..r : Len(M[k]) = c

Transpose(M) == [c \in 1..Len(M[1]) |-> [r \in 1..Len(M) |-> M[r][c]]]

\* C5: for A of shape [b, a] and B of shape [a, c], matrix_matrix(A, B) is a
\* [b, c] matrix and equals the regular matrix product jnp.dot(A, B).
C5_MatrixMatrixIsDot ==
    (vpc \in {"transpose", "done"} /\ Len(matA) > 0) =>
        /\ IsShape(prod, Len(matA), Len(matB[1]))
        /\ prod = prodDot

\* Both products of a non-square pair and of the notebook's array are there.
C5_Witness ==
    /\ vpc = "transpose"
    /\ \/ matA = ExampleA /\ prod = << <<23>>, <<-17>> >>
       \/ matA = Array1234 /\ matB = Array1234 /\ prod = << <<7, 10>>, <<15, 22>> >>

\* C6: for A of shape [b, a] and B of shape [a, c],
\* matrix_matrix_transpose(A, B) is the [c, b] matrix that is the transpose of
\* matrix_matrix(A, B).
C6_TransposeOfMatrixMatrix ==
    (vpc = "done" /\ Len(matA) > 0) =>
        /\ IsShape(prodT, Len(matB[1]), Len(matA))
        /\ prodT = Transpose(prod)
        /\ \A r \in 1..Len(matA), c \in 1..Len(matB[1]) : prodT[c][r] = prod[r][c]

\* The transposed product of a pair whose product is not symmetric.
C6_Witness ==
    /\ vpc = "done" /\ Len(matA) > 0
    /\ Len(prodT) # Len(prod)
    /\ prodT = << <<23, -17>> >>

\* C7: batched_square(xs) is the array the loop [square(x) for x in xs]
\* builds: same length, same order, element i equal to xs[i] * xs[i].
C7_BatchedSquareIsLoop ==
    (vpc = "done" /\ Len(xs) > 0) =>
        /\ Len(batched) = Len(xs)
        /\ batched = squared
        /\ \A k \in 1..Len(xs) : batched[k] = xs[k] * xs[k]

\* Both versions have squared a vector of distinct entries.
C7_Witness ==
    /\ vpc = "done"
    /\ xs = <<-2, 1, 2>>
    /\ batched = <<4, 1, 4>>

-----------------------------------------------------------------------------
(* SpecJit: slow_function and the jitted functions called, in any order, on *)
(* arbitrary small arrays.                                                  *)

\* Largest length of an argument array.
MaxJitLen == 2

\* Entries of an argument array range over 1..MaxJitVal.
MaxJitVal == 2

JitInputs == UNION {[1..n -> {Num(v) : v \in 1..MaxJitVal}] : n \in 1..MaxJitLen}

InitJit ==
    /\ NbIdle /\ VmIdle /\ TrIdle /\ PmIdle /\ NtIdle
    /\ JtIdle

\* The two jitted versions of sin(x) * cos(x).
CompiledFns == {"compiled_function", "decorated_function"}

\* fn(x) for a jitted function fn, inside or outside jax.disable_jit()
CallJitted ==
    \E fn \in CompiledFns, x \in JitInputs, d \in BOOLEAN :
        LET r == JitCall(fn, jcache, d, x)
        IN  /\ jcache' = r.cache
            /\ jcall' = [fn |-> fn, x |-> x, disabled |-> d]
            /\ jval' = r.val
            /\ jprinted' = r.printed
            /\ jran' = r.ran
            /\ UNCHANGED <<jaxprs, nbVars, vmVars, trVars, pmVars, ntVars>>

\* slow_function(x): the uncompiled function
CallSlowFunction ==
    \E x \in JitInputs :
        LET r == EvalExpr(Body("slow_function"), x, <<>>)
        IN  /\ jcall' = [fn |-> "slow_function", x |-> x, disabled |-> FALSE]
            /\ jval' = r.val
            /\ jprinted' = r.printed
            /\ jran' = "eager"
            /\ UNCHANGED <<jcache, jaxprs, nbVars, vmVars, trVars, pmVars, ntVars>>

\* make_jaxpr(slow_function)(x)
CallMakeJaxpr ==
    \E x \in JitInputs :
        LET j == MakeJaxpr(Body("slow_function"))
        IN  /\ jaxprs' = {[sig |-> Signature(x),
                           jaxpr |-> [eqns |-> j.eqns, out |-> j.out]]}
            /\ UNCHANGED <<jcache, jcall, jval, jprinted, jran, nbVars, vmVars, trVars, pmVars, ntVars>>

NextJit == CallJitted \/ CallSlowFunction \/ CallMakeJaxpr

SpecJit == InitJit /\ [][NextJit]_vars

Ops(eqns) == [k \in DOMAIN eqns |-> eqns[k].op]

Term1(op, a) == [op |-> op, n |-> 0, args |-> <<a>>]

Term2(op, a, b) == [op |-> op, n |-> 0, args |-> <<a, b>>]

\* C8: compiled_function and decorated_function return, for every argument,
\* what slow_function returns, sin(x) * cos(x) element by element, and every
\* trace of them is the operation sequence sin, cos, mul.
C8_JitSameAsSlowFunction ==
    /\ jcall.fn \in CompiledFns =>
          /\ jval = EvalExpr(Body("slow_function"), jcall.x, <<>>).val
          /\ Len(jval) = Len(jcall.x)
          /\ \A k \in 1..Len(jcall.x) :
                jval[k] = Term2("mul", Term1("sin", jcall.x[k]), Term1("cos", jcall.x[k]))
    /\ \A fn \in CompiledFns :
          \A c \in jcache[fn] : Ops(c.jaxpr.eqns) = <<"sin", "cos", "mul">>
    /\ \A c \in jaxprs : Ops(c.jaxpr.eqns) = <<"sin", "cos", "mul">>

\* A call of compiled_function that reused the jaxpr traced for another array.
C8_Witness ==
    /\ jcall.fn = "compiled_function" /\ jran = "cached"
    /\ jcall.x = <<Num(2), Num(1)>>
    /\ \E c \in jcache["compiled_function"] : Len(c.jaxpr.eqns) = 3
    /\ jaxprs # {}

-----------------------------------------------------------------------------
(* Pytrees.  A node is a leaf (an array: shape and entries, the entries in  *)
(* units of 1/den), a dict or a tuple.  The children of a container are     *)
(* kept in the order the container holds them: insertion order for a dict,  *)
(* position for a tuple, whose keys are the positions.                      *)

Leaf(shape, data) ==
    [tag |-> "leaf", shape |-> shape, data |-> data, den |-> 1, kids |-> <<>>]

Kid(key, node) == [key |-> key, node |-> node]

Dict(kids) ==
    [tag |-> "dict", shape |-> <<>>, data |-> <<>>, den |-> 1, kids |-> kids]

IndexKey == <<"0", "1", "2">>

Tuple(nodes) ==
    [tag |-> "tuple", shape |-> <<>>, data |-> <<>>, den |-> 1,
     kids |-> [k \in DOMAIN nodes |-> Kid(IndexKey[k], nodes[k])]]

\* The place of a leaf in a tree definition.
Star == [tag |-> "*", shape |-> <<>>, data |-> <<>>, den |-> 1, kids |-> <<>>]

\* The keys the trees use, in Python's sorted() order.
KeyOrder == <<"0", "1", "2", "a", "b", "biases", "layer1", "layer2", "weights">>

Rank(key) == CHOOSE n \in DOMAIN KeyOrder : KeyOrder[n] = key

Remove(seq, m) == SubSeq(seq, 1, m - 1) \o SubSeq(seq, m + 1, Len(seq))

RECURSIVE SortKids(_)
SortKids(kids) ==
    IF Len(kids) = 0 THEN <<>>
    ELSE LET m == CHOOSE m \in DOMAIN kids :
                     \A n \in DOMAIN kids : Rank(kids[m].key) <= Rank(kids[n].key)
         IN  <<kids[m]>> \o SortKids(Remove(kids, m))

\* The children in flattening order: a dict is flattened in sorted key order.
FlatOrder(t) == IF t.tag = "dict" THEN SortKids(t.kids) ELSE t.kids

RECURSIVE ConcatAll(_, _)
ConcatAll(seqs, n) == IF n = 0 THEN <<>> ELSE ConcatAll(seqs, n - 1) \o seqs[n]

\* jax.tree_util.tree_flatten(t)[0]: the leaves, left to right
RECURSIVE Flatten(_)
Flatten(t) ==
    IF t.tag = "leaf" THEN <<t>>
    ELSE LET ks == FlatOrder(t)
         IN  ConcatAll([k \in DOMAIN ks |-> Flatten(ks[k].node)], Len(ks))

RECURSIVE TreeDefMut(_)
TreeDefMut(t) ==
    IF t.tag = "leaf" THEN Star
    ELSE [t EXCEPT !.kids = [k \in DOMAIN t.kids |->
                                Kid(t.kids[k].key, TreeDefMut(t.kids[k].node))]]

\* jax.tree_util.tree_flatten(t)[1]: the structure without the leaves
RECURSIVE TreeDef(_)
TreeDef(t) ==
    IF t.tag = "leaf" THEN Star
    ELSE LET ks == FlatOrder(t)
         IN  [t EXCEPT !.kids = [k \in DOMAIN ks |-> Kid(ks[k].key, TreeDef(ks[k].node))]]

RECURSIVE NumLeaves(_)
RECURSIVE LeavesBefore(_, _)
NumLeaves(def) ==
    IF def.tag = "*" THEN 1 ELSE LeavesBefore(def, Len(def.kids) + 1)

\* Leaves of the children to the left of child k.
LeavesBefore(def, k) ==
    IF k = 1 THEN 0
    ELSE LeavesBefore(def, k - 1) + NumLeaves(def.kids[k - 1].node)

\* treedef.unflatten(ls): the tree of that structure holding the leaves ls
RECURSIVE Unflatten(_, _)
Unflatten(def, ls) ==
    IF def.tag = "*" THEN ls[1]
    ELSE [def EXCEPT !.kids =
             [k \in DOMAIN def.kids |->
                 Kid(def.kids[k].key,
                     Unflatten(def.kids[k].node,
                               SubSeq(ls, LeavesBefore(def, k) + 1,
                                          LeavesBefore(def, k + 1))))]]

\* lambda x: x * 2 on an array
Double(x) == [x EXCEPT !.data = [j \in DOMAIN x.data |-> x.data[j] * 2]]

\* The default of the parameter learning_rate of gradient_descent_step, 0.01.
LrNum == 1

LrDen == 100

SgdLeafMut(q, g) ==
    [q EXCEPT !.data = [j \in DOMAIN q.data |->
                           q.data[j] * g.den * LrDen + LrNum * g.data[j] * q.den],
              !.den  = q.den * g.den * LrDen]

\* lambda p, g: p - learning_rate * g on two arrays of one shape
SgdLeaf(q, g) ==
    [q EXCEPT !.data = [j \in DOMAIN q.data |->
                           q.data[j] * g.den * LrDen - LrNum * g.data[j] * q.den],
              !.den  = q.den * g.den * LrDen]


\* What tree_map does with a second tree: its leaves, if it has the
\* structure of the first tree; otherwise tree_map raises a ValueError.
FlattenUpTo(def, u) == IF TreeDef(u) = def THEN Flatten(u) ELSE <<>>

\* jax.random.normal(jax.random.PRNGKey(seed), shape): n stand-in entries.
RandomNormal(seed, n) == [j \in 1..n |-> ((seed * j) % 7) - 3]

\* jnp.zeros(n)
Zeros(n) == [j \in 1..n |-> 0]

init_network_mut(input_dim, hidden_dim, output_dim) ==
    Dict(<< Kid("layer1", Dict(<<
                Kid("weights", Leaf(<<hidden_dim, input_dim>>,
                                    RandomNormal(123, input_dim * hidden_dim))),
                Kid("biases", Leaf(<<hidden_dim>>, Zeros(hidden_dim))) >>)),
            Kid("layer2", Dict(<<
                Kid("weights", Leaf(<<hidden_dim, output_dim>>,
                                    RandomNormal(246, hidden_dim * output_dim))),
                Kid("biases", Leaf(<<output_dim>>, Zeros(output_dim))) >>)) >>)

init_network(input_dim, hidden_dim, output_dim) ==
    Dict(<< Kid("layer1", Dict(<<
                Kid("weights", Leaf(<<input_dim, hidden_dim>>,
                                    RandomNormal(123, input_dim * hidden_dim))),
                Kid("biases", Leaf(<<hidden_dim>>, Zeros(hidden_dim))) >>)),
            Kid("layer2", Dict(<<
                Kid("weights", Leaf(<<hidden_dim, output_dim>>,
                                    RandomNormal(246, hidden_dim * output_dim))),
                Kid("biases", Leaf(<<output_dim>>, Zeros(output_dim))) >>)) >>)

\* tree = {"a": jnp.array([1.0, 2.0]), "b": (jnp.array([3.0, 4.0]), jnp.array([5.0]))}
NotebookTree ==
    Dict(<< Kid("a", Leaf(<<2>>, <<1, 2>>)),
            Kid("b", Tuple(<<Leaf(<<2>>, <<3, 4>>), Leaf(<<1>>, <<5>>)>>)) >>)

-----------------------------------------------------------------------------
(* SpecTree: jax.tree_map(lambda x: x * 2, tree) and gradient_descent_step  *)
(* on arbitrary small pytrees.                                              *)

\* Largest number of leaves of a generated tree.
MaxLeaves == 3

LeafSet == {Leaf(<<2>>, <<1, 2>>), Leaf(<<1, 1>>, <<-3>>)}

\* The containers of two subtrees: a dict in either insertion order, a tuple.
Pairs(L, R) ==
    {Dict(<<Kid("a", t), Kid("b", u)>>) : t \in L, u \in R}
        \cup {Dict(<<Kid("b", t), Kid("a", u)>>) : t \in L, u \in R}
        \cup {Tuple(<<t, u>>) : t \in L, u \in R}

RECURSIVE TreesN(_)
TreesN(n) ==
    IF n = 1 THEN LeafSet
    ELSE UNION {Pairs(TreesN(k), TreesN(n - k)) : k \in 1..(n - 1)}

Trees == UNION {TreesN(n) : n \in 1..MaxLeaves}
            \cup {NotebookTree, init_network(1, 10, 1)}

\* The gradients grad_fn can return for an array p: arrays of the shape of p.
GradLeaves(q) == {[q EXCEPT !.data = [j \in DOMAIN q.data |-> c * j]] : c \in {-2, 3}}

\* The trees grad_fn can return for the parameters t: the structure of t,
\* built from its tree definition, with a gradient leaf for every leaf.
RECURSIVE GradTrees(_)
RECURSIVE GradKids(_, _)
GradTrees(t) ==
    IF t.tag = "leaf" THEN GradLeaves(t)
    ELSE {[t EXCEPT !.kids = ks] : ks \in GradKids(FlatOrder(t), Len(t.kids))}

GradKids(ks, n) ==
    IF n = 0 THEN {<<>>}
    ELSE {Append(front, Kid(ks[n].key, g)) :
             front \in GradKids(ks, n - 1), g \in GradTrees(ks[n].node)}

InitTree ==
    /\ NbIdle /\ VmIdle /\ JtIdle /\ PmIdle /\ NtIdle
    /\ tree \in Trees
    /\ tfun \in {"double", "sgd"}
    /\ tpc = IF tfun = "sgd" THEN "grad" ELSE "flatten"
    /\ gradients = <<>> /\ leaves = <<>> /\ mapped = <<>> /\ fcalls = <<>>
    /\ tresult = <<>>

TrFixed == UNCHANGED <<nbVars, vmVars, jtVars, pmVars, ntVars, tree, tfun>>

\* gradients = grad_fn(params, x, y_true)
GradFn ==
    /\ tpc = "grad"
    /\ gradients' \in GradTrees(tree)
    /\ tpc' = "flatten"
    /\ UNCHANGED <<leaves, mapped, fcalls, tresult>>
    /\ TrFixed

\* tree_map flattens its trees: the argument lists of f, one per leaf
TreeFlatten ==
    /\ tpc = "flatten"
    /\ IF tfun = "sgd" /\ TreeDef(gradients) # TreeDef(tree)
       THEN tpc' = "error" /\ UNCHANGED <<leaves, fcalls>>
       ELSE /\ tpc' = "map"
            /\ leaves' = IF tfun = "sgd"
                         THEN [k \in DOMAIN Flatten(tree) |->
                                  <<Flatten(tree)[k],
                                    FlattenUpTo(TreeDef(tree), gradients)[k]>>]
                         ELSE [k \in DOMAIN Flatten(tree) |-> <<Flatten(tree)[k]>>]
            /\ fcalls' = [k \in DOMAIN Flatten(tree) |-> 0]
    /\ UNCHANGED <<gradients, mapped, tresult>>
    /\ TrFixed

\* tree_map calls f on the next leaf
ApplyLeaf ==
    /\ tpc = "map" /\ Len(mapped) < Len(leaves)
    /\ LET k == Len(mapped) + 1
       IN  /\ mapped' = Append(mapped, IF tfun = "sgd"
                                       THEN SgdLeaf(leaves[k][1], leaves[k][2])
                                       ELSE Double(leaves[k][1]))
           /\ fcalls' = [fcalls EXCEPT ![k] = @ + 1]
    /\ UNCHANGED <<tpc, gradients, leaves, tresult>>
    /\ TrFixed

\* tree_map rebuilds the tree from the results
TreeUnflatten ==
    /\ tpc = "map" /\ Len(mapped) = Len(leaves)
    /\ tresult' = Unflatten(TreeDef(tree), mapped)
    /\ tpc' = "done"
    /\ UNCHANGED <<gradients, leaves, mapped, fcalls>>
    /\ TrFixed

NextTree == GradFn \/ TreeFlatten \/ ApplyLeaf \/ TreeUnflatten

SpecTree == InitTree /\ [][NextTree]_vars

Keys(t) == {t.kids[k].key : k \in DOMAIN t.kids}

Child(t, key) == t.kids[CHOOSE k \in DOMAIN t.kids : t.kids[k].key = key].node

\* Same containers with the same keys (positions, for a tuple) at every level
\* and leaves in the same places.
RECURSIVE SameStructure(_, _)
SameStructure(a, b) ==
    /\ a.tag = b.tag
    /\ Len(a.kids) = Len(b.kids)
    /\ Keys(a) = Keys(b)
    /\ \A key \in Keys(a) : SameStructure(Child(a, key), Child(b, key))

\* The key paths from the root to the leaves.
RECURSIVE LeafPaths(_)
LeafPaths(t) ==
    IF t.tag = "leaf" THEN {<<>>}
    ELSE UNION {{<<key>> \o q : q \in LeafPaths(Child(t, key))} : key \in Keys(t)}

RECURSIVE At(_, _)
At(t, path) == IF Len(path) = 0 THEN t ELSE At(Child(t, Head(path)), Tail(path))

\* C9: jax.tree_map(lambda x: x * 2, tree) calls f on each leaf exactly once
\* and returns a tree with the containers, keys and leaf positions of the
\* input, each leaf twice the input leaf at the same position.
C9_TreeMapKeepsStructure ==
    tfun = "double" =>
        /\ \A k \in DOMAIN fcalls : fcalls[k] <= 1
        /\ tpc = "done" =>
              /\ Len(fcalls) = Cardinality(LeafPaths(tree))
              /\ \A k \in DOMAIN fcalls : fcalls[k] = 1
              /\ SameStructure(tresult, tree)
              /\ \A path \in LeafPaths(tree) :
                    LET a == At(tree, path)
                        r == At(tresult, path)
                    IN  /\ r.tag = "leaf"
                        /\ r.shape = a.shape
                        /\ r.den = a.den
                        /\ Len(r.data) = Len(a.data)
                        /\ \A j \in DOMAIN a.data : r.data[j] = 2 * a.data[j]

\* The notebook's tree has been doubled.
C9_Witness ==
    /\ tfun = "double" /\ tpc = "done"
    /\ tree = NotebookTree
    /\ At(tresult, <<"b", "1">>).data = <<10>>

-----------------------------------------------------------------------------
(* SpecPmap: pmap_multiply = jax.pmap(matrix_matrix, devices=...) called on *)
(* arbitrary small sharded arrays.  The devices work concurrently: the      *)
(* shards are multiplied in any order.                                      *)

\* Largest leading dimension of the sharded arguments.
MaxShards == 2

\* The shards of x_sharded come from one of these sets (one shape per set).
XShardSets ==
    { {Array1234, <<<<0, 1>>, <<-1, 2>>>>, <<<<1, 0>>, <<0, 1>>>>},
      {<<<<2, -1>>>>, <<<<0, 3>>>>} }

\* The shards of y_sharded: two rows each, as the shards of x_sharded have
\* two columns.
YShardSets ==
    { {Array1234, <<<<0, -1>>, <<1, 0>>>>},
      {<<<<1, 0, 2>>, <<-1, 1, 0>>>>, <<<<0, 0, 1>>, <<2, 1, -2>>>>} }

Sharded(sets, n) == UNION {[1..n -> set] : set \in sets}

pmap_multiply_shard_mut(X, Y, k) == matrix_matrix(X[1], Y[k])

\* What the device of shard k computes: matrix_matrix on the k-th slices of
\* the leading axis of both arguments.
pmap_multiply_shard(X, Y, k) == matrix_matrix(X[k], Y[k])

InitPmap ==
    /\ NbIdle /\ VmIdle /\ JtIdle /\ TrIdle /\ NtIdle
    /\ ppc = "run"
    /\ \E n \in 1..MaxShards :
          /\ x_sharded \in Sharded(XShardSets, n)
          /\ y_sharded \in Sharded(YShardSets, n)
          /\ pdevs \in {LocalDevices(GpuDevice, n), [k \in 1..n |-> GpuDevice]}
          /\ pbuffers = [k \in 1..n |-> <<>>]
    /\ presult = <<>>

PmFixed == UNCHANGED <<nbVars, vmVars, jtVars, trVars, ntVars, x_sharded, y_sharded, pdevs>>

\* The device of shard k multiplies its pair of sub-arrays.
RunShard ==
    /\ ppc = "run"
    /\ \E k \in DOMAIN pbuffers :
          /\ pbuffers[k] = <<>>
          /\ pbuffers' = [pbuffers EXCEPT ![k] =
                             <<[device |-> pdevs[k],
                                value |-> pmap_multiply_shard(x_sharded, y_sharded, k)]>>]
    /\ UNCHANGED <<ppc, presult>>
    /\ PmFixed

\* Every shard is done: the call returns one array over the buffers.
PmapReturn ==
    /\ ppc = "run"
    /\ \A k \in DOMAIN pbuffers : pbuffers[k] # <<>>
    /\ presult' = [k \in DOMAIN pbuffers |-> pbuffers[k][1].value]
    /\ ppc' = "done"
    /\ UNCHANGED pbuffers
    /\ PmFixed

NextPmap == RunShard \/ PmapReturn

SpecPmap == InitPmap /\ [][NextPmap]_vars

\* C12: pmap_multiply(x_sharded, y_sharded) returns one array whose leading
\* dimension is the number of shards, made of one buffer per shard of the
\* shape of one product, and shard k of it is
\* matrix_matrix(x_sharded[k], y_sharded[k]).
C12_PmapResult ==
    ppc = "done" =>
        /\ Len(pbuffers) = Len(x_sharded)
        /\ Shape3(presult) = <<Len(x_sharded), Len(x_sharded[1]), Len(y_sharded[1][1])>>
        /\ Shape3(presult) = PmapCall(pdevs, Shape3(x_sharded), Shape3(y_sharded)).shape
        /\ \A k \in DOMAIN x_sharded :
              /\ Len(pbuffers[k]) = 1
              /\ Shape2(pbuffers[k][1].value) = Tail(Shape3(presult))
              /\ presult[k] = dot(x_sharded[k], y_sharded[k])
              /\ presult[k] = matrix_matrix(x_sharded[k], y_sharded[k])

\* Two different (1, 2) shards have been multiplied with (2, 3) shards.
C12_Witness ==
    /\ ppc = "done"
    /\ Len(x_sharded) = 2
    /\ x_sharded[1] # x_sharded[2]
    /\ presult[1] # presult[2]
    /\ Shape3(presult) = <<2, 1, 3>>

-----------------------------------------------------------------------------
(* SpecNet: init_network(input_dim, hidden_dim, output_dim), then forward   *)
(* and loss on the parameters, as returned or after some of their entries   *)
(* have been changed, as gradient steps change them.  Entries are integers. *)

\* Largest input_dim, hidden_dim and output_dim.
MaxDim == 2

\* Largest number of entries changed after init_network.
MaxSteps == 1

\* Entries of the input x and of the target y_true.
Inputs == {-1, 2}

Targets == {-1, 1}

\* What one change adds to an entry.
Deltas == {-2, 2}

Weights(q, layer) == Child(Child(q, layer), "weights")

Biases(q, layer) == Child(Child(q, layer), "biases")

\* Entry (r, c) of a two-dimensional leaf
Entry(leaf, r, c) == leaf.data[(r - 1) * leaf.shape[2] + c]

\* jnp.dot(a, W) + b for one row a
Dense(a, W, b) ==
    Vec([h \in 1..W.shape[2] |->
            SumTo(a, [k \in 1..W.shape[1] |-> Entry(W, k, h)], W.shape[1])
                + b.data[h]])

\* z2 of forward, row by row
PreActivation(q, x) ==
    Vec([n \in DOMAIN x |->
            LET z1 == Dense(x[n], Weights(q, "layer1"), Biases(q, "layer1"))
                a1 == Vec([h \in DOMAIN z1 |-> relu(z1[h])])
            IN  Dense(a1, Weights(q, "layer2"), Biases(q, "layer2"))])

forward_mut(q, x) == PreActivation(q, x)

\* def forward(params, x): ... a2 = jax.nn.relu(z2); return a2
forward(q, x) ==
    LET z2 == PreActivation(q, x)
    IN  Vec([n \in DOMAIN z2 |-> Vec([o \in DOMAIN z2[n] |-> relu(z2[n][o])])])

RECURSIVE SquaresTo(_, _, _)
\* Sum of the squared differences of the first n rows
SquaresTo(P, Y, n) ==
    IF n = 0 THEN 0
    ELSE LET d == [o \in DOMAIN P[n] |-> P[n][o] - Y[n][o]]
         IN  SquaresTo(P, Y, n - 1) + SumTo(d, d, Len(P[n]))

\* jnp.mean((y_pred - y_true) ** 2) as the fraction num / den
loss(q, x, y) ==
    LET pred == forward(q, x)
    IN  [num |-> SquaresTo(pred, y, Len(pred)), den |-> Len(pred) * Len(pred[1])]

\* q with d added to entry j of the leaf kind of the layer
Changed(q, layer, kind, j, d) ==
    Dict([k \in DOMAIN q.kids |->
            IF q.kids[k].key # layer THEN q.kids[k]
            ELSE Kid(layer, Dict([m \in DOMAIN q.kids[k].node.kids |->
                     LET lf == q.kids[k].node.kids[m]
                     IN  IF lf.key # kind THEN lf
                         ELSE Kid(kind, [lf.node EXCEPT !.data =
                                            Vec([e \in DOMAIN @ |->
                                                   IF e = j THEN @[e] + d ELSE @[e]])])]))])

Rows(n, width, values) == [1..n -> [1..width -> values]]

InitNet ==
    /\ NbIdle /\ VmIdle /\ JtIdle /\ TrIdle /\ PmIdle
    /\ npc = "init"
    /\ dims \in [input_dim : 1..MaxDim, hidden_dim : 1..MaxDim, output_dim : 1..MaxDim]
    /\ nparams = <<>> /\ nsteps = 0
    /\ x_in \in Rows(1, dims.input_dim, Inputs)
    /\ y_true \in Rows(1, dims.output_dim, Targets)
    /\ y_pred = <<>> /\ nloss = <<>>

NtFixed == UNCHANGED <<nbVars, vmVars, jtVars, trVars, pmVars, dims, x_in, y_true>>

\* params = init_network(input_dim, hidden_dim, output_dim)
InitNetwork ==
    /\ npc = "init"
    /\ nparams' = init_network(dims.input_dim, dims.hidden_dim, dims.output_dim)
    /\ npc' = "params"
    /\ UNCHANGED <<nsteps, y_pred, nloss>>
    /\ NtFixed

\* An entry of a parameter array takes another value (training changes the
\* values of the arrays, never their shapes).
ChangeEntry ==
    /\ npc = "params" /\ nsteps < MaxSteps
    /\ \E layer \in {"layer1", "layer2"}, kind \in {"weights", "biases"}, d \in Deltas :
          \E j \in DOMAIN Child(Child(nparams, layer), kind).data :
              nparams' = Changed(nparams, layer, kind, j, d)
    /\ nsteps' = nsteps + 1
    /\ UNCHANGED <<npc, y_pred, nloss>>
    /\ NtFixed

\* y_pred = forward(params, x)
Forward ==
    /\ npc = "params"
    /\ y_pred' = forward(nparams, x_in)
    /\ npc' = "loss"
    /\ UNCHANGED <<nparams, nsteps, nloss>>
    /\ NtFixed

\* return jnp.mean((y_pred - y_true) ** 2)
Loss ==
    /\ npc = "loss"
    /\ nloss' = loss(nparams, x_in, y_true)
    /\ npc' = "done"
    /\ UNCHANGED <<nparams, nsteps, y_pred>>
    /\ NtFixed

NextNet == InitNetwork \/ ChangeEntry \/ Forward \/ Loss

SpecNet == InitNet /\ [][NextNet]_vars

Cells(M) == {<<n, o>> : n \in DOMAIN M, o \in DOMAIN M[1]}

\* C18: forward returns only non-negative values, whatever the parameters
\* and the input; the loss against a target with a negative entry is
\* therefore never zero.
C18_ForwardNonNegative ==
    /\ npc \in {"loss", "done"} =>
          /\ \A c \in Cells(y_pred) : y_pred[c[1]][c[2]] >= 0
          /\ \A c \in Cells(y_pred) :
                y_pred[c[1]][c[2]] = relu(PreActivation(nparams, x_in)[c[1]][c[2]])
    /\ (npc = "done" /\ \E c \in Cells(y_true) : y_true[c[1]][c[2]] < 0) =>
          nloss.num > 0 /\ nloss.den > 0

\* forward has cut a negative z2 to 0 on changed parameters, and the loss
\* against the negative target is positive.
C18_Witness ==
    /\ npc = "done" /\ nsteps > 0
    /\ \E c \in Cells(y_pred) :
          /\ PreActivation(nparams, x_in)[c[1]][c[2]] < 0
          /\ y_pred[c[1]][c[2]] = 0
          /\ y_true[c[1]][c[2]] < 0
    /\ nloss.num > 0

IsZeros(leaf, n) ==
    /\ leaf.tag = "leaf" /\ leaf.shape = <<n>>
    /\ Len(leaf.data) = n /\ \A j \in 1..n : leaf.data[j] = 0

IsMatrix(leaf, rows, cols) ==
    /\ leaf.tag = "leaf" /\ leaf.shape = <<rows, cols>>
    /\ Len(leaf.data) = rows * cols

\* C19: init_network(input_dim, hidden_dim, output_dim) returns a dict with
\* exactly the keys layer1 and layer2, each a dict with exactly the keys
\* weights and biases; the weights have the shapes (input_dim, hidden_dim)
\* and (hidden_dim, output_dim), the biases are all zero, of the lengths
\* hidden_dim and output_dim.
C19_InitNetworkShape ==
    (npc = "params" /\ nsteps = 0) =>
        /\ nparams.tag = "dict" /\ Len(nparams.kids) = 2
        /\ Keys(nparams) = {"layer1", "layer2"}
        /\ \A l \in {"layer1", "layer2"} :
              /\ Child(nparams, l).tag = "dict" /\ Len(Child(nparams, l).kids) = 2
              /\ Keys(Child(nparams, l)) = {"weights", "biases"}
        /\ IsMatrix(Weights(nparams, "layer1"), dims.input_dim, dims.hidden_dim)
        /\ IsMatrix(Weights(nparams, "layer2"), dims.hidden_dim, dims.output_dim)
        /\ IsZeros(Biases(nparams, "layer1"), dims.hidden_dim)
        /\ IsZeros(Biases(nparams, "layer2"), dims.output_dim)

\* init_network(1, 2, 1) has returned: weights (1, 2) and (2, 1).
C19_Witness ==
    /\ npc = "params" /\ nsteps = 0
    /\ dims = [input_dim |-> 1, hidden_dim |-> 2, output_dim |-> 1]
    /\ Weights(nparams, "layer1").shape = <<1, 2>>
    /\ Weights(nparams, "layer2").shape = <<2, 1>>
    /\ Biases(nparams, "layer1").data = <<0, 0>>

-----------------------------------------------------------------------------
(* The gradient step of the last cell of the notebook run:                  *)
(* update = gradient_descent_step(init_network(1, 10, 1), x_data[:, None],  *)
(*                                y_data[:, None])                          *)

\* learning_rate=0.01, the default of the parameter, bound when the def runs
DefaultRate == Scale \div 100

\* lambda p, g: p - learning_rate * g on two arrays of one shape, for a
\* learning_rate in thousandths: the exact result, in units of 1 / den.
StepLeaf(q, g, rate) ==
    [q EXCEPT !.data = [j \in DOMAIN q.data |->
                           q.data[j] * g.den * Scale - rate * g.data[j] * q.den],
              !.den  = q.den * g.den * Scale]

StepTree(q, grads, rate) ==
    Unflatten(TreeDef(q),
              [k \in DOMAIN Flatten(q) |->
                  StepLeaf(Flatten(q)[k], FlattenUpTo(TreeDef(q), grads)[k], rate)])

gradient_descent_step_mut(q, grads, rate) == StepTree(q, grads, learning_rate)

\* def gradient_descent_step(params, x, y_true, learning_rate=0.01), given
\* gradients = grad_fn(params, x, y_true):
\*     return jax.tree_map(lambda p, g: p - learning_rate * g, params, gradients)
gradient_descent_step(q, grads, rate) == StepTree(q, grads, rate)

\* update = gradient_descent_step(init_network(1, 10, 1), x_data[:, None],
\*                                y_data[:, None])
\* The call passes no learning_rate; grad_fn returns a tree of the structure
\* of the parameters.
GdStepStmt ==
    /\ Ready("gd_step")
    /\ step_gradients' \in GradTrees(init_network(1, 10, 1))
    /\ update' = gradient_descent_step(init_network(1, 10, 1), step_gradients',
                                       DefaultRate)
    /\ Bind /\ Step
    /\ UNCHANGED <<it, i, errors, numpy_array, jax_array, jax_device, jit_cache,
                   outputs, updates>>
    /\ UNCHANGED <<copy, onError, backend, ndev, vmVars, jtVars, trVars, pmVars,
                   ntVars>>
    /\ Kept

Next ==
    \/ RaiseNameError \/ ExecStmt \/ NpArray \/ JnpArray \/ NpSetItem
    \/ JaxSetItemTry \/ ShowDevice \/ DevicePutStmt \/ JitDef \/ CallCompiled
    \/ ShowJaxpr \/ ShowEnabled \/ ShowDisabled
    \/ JitLoopIter \/ JitLoopExit \/ NoJitLoopIter \/ NoJitLoopExit
    \/ LinLoopIter \/ LinLoopExit \/ NnLoopIter \/ NnLoopExit
    \/ ShowMatrixMatrix \/ ShowTranspose
    \/ LinspaceStmt \/ NoisyLineStmt \/ SetLearningRate \/ InitParams
    \/ InitNnParams
    \/ GetDevices \/ PmapDef \/ PmapCallStmt \/ ShowBuffers \/ ShowShape
    \/ GdStepStmt
    \/ NextCell \/ Finish

Spec == Init /\ [][Next]_vars

\* p - rate * g for every entry of every leaf of the trees q, g, u, with the
\* rate num / 100: u / u.den = q / q.den - (num / 100) * (g / g.den)
SteppedBy(u, q, g, num) ==
    /\ TreeDef(u) = TreeDef(q)
    /\ \A k \in DOMAIN Flatten(q) :
          LET uk == Flatten(u)[k]
              qk == Flatten(q)[k]
              gk == Flatten(g)[k]
          IN  /\ uk.shape = qk.shape
              /\ \A j \in DOMAIN qk.data :
                    100 * uk.data[j] * qk.den * gk.den
                        = uk.den * (100 * qk.data[j] * gk.den
                                        - num * gk.data[j] * qk.den)

\* C21: the call of gradient_descent_step in the last cell gives no
\* learning_rate; it steps with the default 0.01 of the parameter, not with
\* the notebook-level learning_rate, which is 0.1 at the call and which the
\* call leaves alone.
C21_StepUsesDefaultRate ==
    /\ [][Ready("gd_step") =>
              /\ 10 * learning_rate = Scale
              /\ learning_rate' = learning_rate
              /\ SteppedBy(update', init_network(1, 10, 1), step_gradients', 1)
              /\ ~SteppedBy(update', init_network(1, 10, 1), step_gradients', 10)]_vars
    /\ []("update" \in ns =>
              /\ 10 * learning_rate = Scale
              /\ SteppedBy(update, init_network(1, 10, 1), step_gradients, 1))

\* The call has returned: the first weight has moved by 0.01 times its
\* gradient, while learning_rate is 0.1.
C21_Witness ==
    /\ "update" \in ns /\ After("1adb56dd", 2)
    /\ 10 * learning_rate = Scale
    /\ LET u == Flatten(update)[1]
           q == Flatten(init_network(1, 10, 1))[1]
           g == Flatten(step_gradients)[1]
       IN  /\ g.data[1] # 0
           /\ 100 * u.data[1] = u.den * (100 * q.data[1] - g.data[1])

====
